---- MODULE Spec2Model ----
(***************************************************************************)
(* A model of DOOM Retro's movement and collision core (src/src/p_map.c):  *)
(* the sector-membership threads (msecnode_t), the position validator, the *)
(* mover, the teleport stomp, the slider's retry loop, radius attacks,     *)
(* sector height changes and the friction lookup.                          *)
(*                                                                         *)
(* The map is one blockmap cell wide: a corridor along x cut into three    *)
(* sectors by vertical linedefs, so the block iterators visit every line   *)
(* (in linedef order) and every thing of the cell.  Coordinates and        *)
(* heights are fixed_t values (16 fractional bits).                        *)
(***************************************************************************)
EXTENDS Integers, Sequences, FiniteSets, TLC

VARIABLES
    mobj,       \* thing id -> mobj_t fields
    sectors,    \* sector id -> sector_t fields
    heap,       \* msecnode_t storage, headsecnode, sector_list, touching_thinglist
    blocklinks, \* the blockmap cell's thing list, most recently linked first
    tm,         \* the validator's process-wide scratch state (tmthing, tmx, ...)
    env,        \* game-wide switches and clocks (freeze, infiniteheight, leveltime, ...)
    slide,      \* P_SlideMove's locals and program position
    obs         \* the last call: its name, arguments, result and what it observed

vars == <<mobj, sectors, heap, blocklinks, tm, env, slide, obs>>

----------------------------------------------------------------------------
(* Fixed-point and program constants *)

FRACBITS == 16
FRACUNIT == 65536
MAXRADIUS == 2097152
ORIG_FRICTION == 59392
ORIG_FRICTION_FACTOR == 2048
MAXSTEP == 1572864
STOMPDAMAGE == 10000
CRUSHDAMAGE == 10

U(n) == n * FRACUNIT

ABS(a) == IF a < 0 THEN -a ELSE a
MAX(a, b) == IF a > b THEN a ELSE b
MIN(a, b) == IF a < b THEN a ELSE b

\* a >> n on a two's complement int: division rounding toward minus infinity
SHR(a, n) == a \div (2 ^ n)

\* FixedMul: ((int64_t)a * b) >> FRACBITS, the 64-bit product taken in parts
FixedMul(a, b) ==
    (a \div FRACUNIT) * b
        + ((((a % FRACUNIT) \div 256) * b) + (((a % 256) * b) \div 256)) \div 256

NULL == 0

----------------------------------------------------------------------------
(* Bounds of the model *)

NThings == 2
Things == 1 .. NThings

\* the number of calls a behaviour of the membership specification makes
MaxOps == 4

Sectors == 1 .. 3

\* one node per (thing, sector) pair is the most that is ever live, and a
\* freed node is reused before the allocator is asked again
MaxNodes == Cardinality(Things) * Cardinality(Sectors)
Nodes == 1 .. MaxNodes

----------------------------------------------------------------------------
(* Static geometry: linedefs of the corridor, in linedef (blockmap) order *)

BOXTOP == 1
BOXBOTTOM == 2
BOXLEFT == 3
BOXRIGHT == 4

Box(top, bottom, left, right) == <<top, bottom, left, right>>

\* v1 is (x, y1), v2 is (x, y2): dx = 0, dy = y2 - y1
VLine(x, y1, y2, front, back, flags, special) ==
    [v1x |-> U(x), v1y |-> U(y1), dx |-> 0, dy |-> U(y2 - y1),
     bbox |-> Box(U(MAX(y1, y2)), U(MIN(y1, y2)), U(x), U(x)),
     frontsector |-> front, backsector |-> back,
     flags |-> flags, special |-> special]

\* a line's front side is on the right of its direction v1 -> v2: the walls
\* face into the corridor
lines ==
    << VLine(0,  -64,  64, 1, NULL, {"ML_BLOCKING"}, 0),
       VLine(48,  64, -64, 1, 2,    {"ML_TWOSIDED"}, 0),
       VLine(80, -64,  64, 3, 2,    {"ML_TWOSIDED"}, 1),
       VLine(104, 64, -64, 3, 3,    {"ML_TWOSIDED"}, 1),
       VLine(128, 64, -64, 3, NULL, {"ML_BLOCKING"}, 0) >>

Lines == 1 .. Len(lines)

\* R_PointInSubsector(x, y)->sector for the corridor
R_PointInSubsector(x, y) ==
    IF x < U(48) THEN 1 ELSE IF x < U(80) THEN 2 ELSE 3

\* P_PointOnLineSide: 0 front, 1 back (vertical lines: dx = 0)
P_PointOnLineSide(x, y, ld) ==
    IF x <= ld.v1x THEN (IF ld.dy > 0 THEN 1 ELSE 0)
    ELSE (IF ld.dy < 0 THEN 1 ELSE 0)

\* P_BoxOnLineSide for ST_VERTICAL lines: -1 when the box crosses the line
P_BoxOnLineSide(box, ld) ==
    LET a == box[BOXRIGHT] < ld.v1x
        b == box[BOXLEFT] < ld.v1x
        p1 == IF ld.dy < 0 THEN ~a ELSE a
        p2 == IF ld.dy < 0 THEN ~b ELSE b
    IN IF p1 = p2 THEN (IF p1 THEN 1 ELSE 0) ELSE -1

----------------------------------------------------------------------------
(* Sector-membership nodes (msecnode_t) and their free list *)

NoNode ==
    [m_sector |-> NULL, m_thing |-> NULL, m_tprev |-> NULL, m_tnext |-> NULL,
     m_sprev |-> NULL, m_snext |-> NULL, visited |-> FALSE]

EmptyHeap ==
    [node |-> [n \in Nodes |-> NoNode],
     headsecnode |-> NULL,
     sector_list |-> NULL,
     touching_thinglist |-> [s \in Sectors |-> NULL],
     nalloc |-> 0]

\* P_FreeSecNodeList: forget the free list (the level's zone is freed as a whole)
P_FreeSecNodeList(h) == [h EXCEPT !.headsecnode = NULL]

\* P_GetSecnode: the head of the free list, else a fresh node from Z_Malloc
P_GetSecnode(h) ==
    IF h.headsecnode # NULL
    THEN [node |-> h.headsecnode,
          h |-> [h EXCEPT !.headsecnode = h.node[h.headsecnode].m_snext]]
    ELSE [node |-> h.nalloc + 1, h |-> [h EXCEPT !.nalloc = @ + 1]]

\* the node released instead of kept
P_PutSecnode_Released(h, n) == h

\* P_PutSecnode: push the node on the free list
P_PutSecnode(h, n) ==
    [h EXCEPT !.node[n].m_snext = h.headsecnode, !.headsecnode = n]

\* p->field = v behind an 'if (p)'
SetTPrev(nd, p, v) == IF p = NULL THEN nd ELSE [nd EXCEPT ![p].m_tprev = v]
SetTNext(nd, p, v) == IF p = NULL THEN nd ELSE [nd EXCEPT ![p].m_tnext = v]
SetSPrev(nd, p, v) == IF p = NULL THEN nd ELSE [nd EXCEPT ![p].m_sprev = v]
SetSNext(nd, p, v) == IF p = NULL THEN nd ELSE [nd EXCEPT ![p].m_snext = v]

\* the search loop of P_AddSecnode: the node for sector s on the thing thread
\* that starts at node, or NULL
RECURSIVE FindSecnode(_, _, _)
FindSecnode(nd, node, s) ==
    IF node = NULL THEN NULL
    ELSE IF nd[node].m_sector = s THEN node
    ELSE FindSecnode(nd, nd[node].m_tnext, s)

\* P_AddSecnode after P_GetSecnode: fill node n and put it at the head of the
\* thing thread (before nextnode) and of sector s's thread (before oldhead)
LinkSecnode(h, n, s, thing, nextnode, oldhead) ==
    [h |-> [h EXCEPT
              !.node = SetSPrev(
                         SetTPrev([h.node EXCEPT ![n] =
                                      [@ EXCEPT !.m_sector = s, !.m_thing = thing,
                                                !.m_tprev = NULL,
                                                !.m_tnext = nextnode,
                                                !.m_sprev = NULL,
                                                !.m_snext = oldhead]],
                                  nextnode, n),
                         oldhead, n),
              !.touching_thinglist[s] = n],
     ret |-> n]

NewSecnode(g, s, thing, nextnode) ==
    LinkSecnode(g.h, g.node, s, thing, nextnode, g.h.touching_thinglist[s])

\* P_AddSecnode without the 'keep it' mark on a node that is already there
KeepSecnode_NoMark(h, thing, nextnode, found) == [h |-> h, ret |-> nextnode]

\* P_AddSecnode, found: setting m_thing says 'keep it'
KeepSecnode(h, thing, nextnode, found) ==
    [h |-> [h EXCEPT !.node[found].m_thing = thing], ret |-> nextnode]

\* variant: a node is obtained whether or not the sector has one already
AddSecnodeAt_Fresh(h, s, thing, nextnode, found) ==
    NewSecnode(P_GetSecnode(h), s, thing, nextnode)

AddSecnodeAt(h, s, thing, nextnode, found) ==
    IF found # NULL
    THEN KeepSecnode(h, thing, nextnode, found)
    ELSE NewSecnode(P_GetSecnode(h), s, thing, nextnode)

\* P_AddSecnode(s, thing, nextnode): returns the (possibly new) head of the
\* thing thread
P_AddSecnode(h, s, thing, nextnode) ==
    AddSecnodeAt(h, s, thing, nextnode, FindSecnode(h.node, nextnode, s))

\* the sector thread's head after P_DelSecnode, had it been forgotten
DelSectorHead_Forgotten(ttl, s, sp, sn) == ttl

\* the sector thread's head after P_DelSecnode: sn when the node was first
DelSectorHead(ttl, s, sp, sn) ==
    IF sp # NULL THEN ttl ELSE [ttl EXCEPT ![s] = sn]

UnlinkSecnode(h, node, tp, tn, sp, sn, s) ==
    [h |-> P_PutSecnode(
              [h EXCEPT
                 !.node = SetSPrev(SetSNext(SetTPrev(SetTNext(h.node, tp, tn),
                                                     tn, tp),
                                            sp, sn),
                                   sn, sp),
                 !.touching_thinglist = DelSectorHead(h.touching_thinglist, s, sp, sn)],
              node),
     ret |-> tn]

\* P_DelSecnode(node): unlink from both threads, free, return the next node
\* on the thing thread
P_DelSecnode(h, node) ==
    UnlinkSecnode(h, node, h.node[node].m_tprev, h.node[node].m_tnext,
                  h.node[node].m_sprev, h.node[node].m_snext,
                  h.node[node].m_sector)

\* P_DelSeclist(node): delete an entire thing thread
RECURSIVE P_DelSeclist(_, _)
DelSeclistStep(d) == P_DelSeclist(d.h, d.ret)

P_DelSeclist(h, node) ==
    IF node = NULL THEN h ELSE DelSeclistStep(P_DelSecnode(h, node))

\* the first loop of P_CreateSecNodeList: clear m_thing along the thing thread
RECURSIVE ClearThingMarks(_, _)
ClearThingMarks(nd, node) ==
    IF node = NULL THEN nd
    ELSE ClearThingMarks([nd EXCEPT ![node].m_thing = NULL], nd[node].m_tnext)

\* sector_list = P_AddSecnode(s, thing, sector_list)
SetSectorList(a) == [a.h EXCEPT !.sector_list = a.ret]

AddToSectorList(h, s, thing) ==
    SetSectorList(P_AddSecnode(h, s, thing, h.sector_list))

\* PIT_GetSectors, the line crosses the box: its front sector and, if it is
\* another one, its back sector
GetLineSectors(h, thing, ld) ==
    IF ld.backsector # NULL /\ ld.backsector # ld.frontsector
    THEN AddToSectorList(AddToSectorList(h, ld.frontsector, thing),
                         ld.backsector, thing)
    ELSE AddToSectorList(h, ld.frontsector, thing)

\* PIT_GetSectors(ld): add the sectors of a line that crosses tmbbox
PIT_GetSectors(h, t, ld) ==
    IF \/ t.tmbbox[BOXRIGHT] <= ld.bbox[BOXLEFT]
       \/ t.tmbbox[BOXLEFT] >= ld.bbox[BOXRIGHT]
       \/ t.tmbbox[BOXTOP] <= ld.bbox[BOXBOTTOM]
       \/ t.tmbbox[BOXBOTTOM] >= ld.bbox[BOXTOP]
    THEN h
    ELSE IF P_BoxOnLineSide(t.tmbbox, ld) # -1 THEN h
    ELSE GetLineSectors(h, t.tmthing, ld)

\* P_BlockLinesIterator over the cell's lines with PIT_GetSectors
RECURSIVE GetSectorsFrom(_, _, _)
GetSectorsFrom(h, t, i) ==
    IF i > Len(lines) THEN h
    ELSE GetSectorsFrom(PIT_GetSectors(h, t, lines[i]), t, i + 1)

\* the last loop of P_CreateSecNodeList: delete the nodes whose m_thing is
\* still NULL
RECURSIVE DeleteUnmarked(_, _)
DeleteUnmarkedStep(d) == DeleteUnmarked(d.h, d.ret)

DeleteUnmarked(h, node) ==
    IF node = NULL THEN h
    ELSE IF h.node[node].m_thing = NULL
    THEN DeleteUnmarkedStep(
             P_DelSecnode(IF node = h.sector_list
                          THEN [h EXCEPT !.sector_list = h.node[node].m_tnext]
                          ELSE h,
                          node))
    ELSE DeleteUnmarked(h, h.node[node].m_tnext)

DeleteVacated(h) == DeleteUnmarked(h, h.sector_list)

\* the scratch state while P_CreateSecNodeList works for thing at (x, y)
SecNodeScratch(t, thing, x, y, radius) ==
    [t EXCEPT !.tmthing = thing, !.tmx = x, !.tmy = y,
              !.tmbbox = Box(y + radius, y - radius, x - radius, x + radius)]

\* the scratch state P_CreateSecNodeList leaves: tmthing, tmx, tmy restored
\* from the saved values, tmbbox rebuilt from them when tmthing is not NULL
RestoreScratch(t1, t, r2) ==
    [t1 EXCEPT !.tmthing = t.tmthing, !.tmx = t.tmx, !.tmy = t.tmy,
               !.tmbbox = IF t.tmthing # NULL
                          THEN Box(t.tmy + r2, t.tmy - r2, t.tmx - r2, t.tmx + r2)
                          ELSE @]

\* P_CreateSecNodeList(thing, x, y): rebuild sector_list for the thing; mo is
\* the mobj table (radii, subsector).  Returns the heap and the scratch state.
CreateSecNodeListIn(h, t, t1, mo, thing) ==
    [h |-> DeleteVacated(
              AddToSectorList(
                  GetSectorsFrom([h EXCEPT !.node =
                                     ClearThingMarks(h.node, h.sector_list)],
                                 t1, 1),
                  mo[thing].subsector, thing)),
     tm |-> RestoreScratch(t1, t,
                           IF t.tmthing # NULL THEN mo[t.tmthing].radius ELSE 0)]

P_CreateSecNodeList(h, t, mo, thing, x, y) ==
    CreateSecNodeListIn(h, t,
                        SecNodeScratch(t, thing, x, y, mo[thing].pickupradius),
                        mo, thing)

----------------------------------------------------------------------------
(* Things (mobj_t) *)

\* a thing that is not in the map: every field at rest
NoMobj ==
    [x |-> 0, y |-> 0, z |-> 0, radius |-> U(20), height |-> U(56),
     momx |-> 0, momy |-> 0, momz |-> 0,
     flags |-> {}, flags2 |-> {},
     floorz |-> 0, ceilingz |-> 0, dropoffz |-> 0,
     health |-> 0, player |-> "none", type |-> "MT_MISC", target |-> NULL,
     gear |-> 0, nudge |-> 0,
     pickupradius |-> U(20), projectilepassheight |-> 0, damage |-> 0,
     blood |-> FALSE,
     subsector |-> NULL, touching_sectorlist |-> NULL, linked |-> FALSE]

\* P_UnsetThingPosition(thing): out of the cell's thing list; the sector
\* thread is parked in sector_list
P_UnsetThingPosition(w, thing) ==
    [w EXCEPT
       !.heap.sector_list =
           IF "MF_NOSECTOR" \in w.mobj[thing].flags THEN @
           ELSE w.mobj[thing].touching_sectorlist,
       !.mobj[thing].touching_sectorlist =
           IF "MF_NOSECTOR" \in w.mobj[thing].flags THEN @ ELSE NULL,
       !.blocklinks =
           IF "MF_NOBLOCKMAP" \in w.mobj[thing].flags THEN @
           ELSE SelectSeq(@, LAMBDA u : u # thing)]

\* P_SetThingPosition, the sector part: attach the rebuilt thread to the
\* thing and clear sector_list for next time
AttachSecList(w, thing, c) ==
    [w EXCEPT !.mobj[thing].touching_sectorlist = c.h.sector_list,
              !.heap = [c.h EXCEPT !.sector_list = NULL],
              !.tm = c.tm]

SetThingSectors(w, thing) ==
    IF "MF_NOSECTOR" \in w.mobj[thing].flags THEN w
    ELSE AttachSecList(w, thing,
                       P_CreateSecNodeList(w.heap, w.tm, w.mobj, thing,
                                           w.mobj[thing].x, w.mobj[thing].y))

\* P_SetThingPosition, the blockmap part: link at the head of the cell's list
SetThingBlock(w, thing) ==
    IF "MF_NOBLOCKMAP" \in w.mobj[thing].flags THEN w
    ELSE [w EXCEPT !.blocklinks = <<thing>> \o @]

\* P_SetThingPosition(thing): find the subsector, rebuild and attach the
\* sector thread, link into the blockmap
P_SetThingPosition(w, thing) ==
    SetThingBlock(
        SetThingSectors(
            [w EXCEPT !.mobj[thing].subsector =
                R_PointInSubsector(w.mobj[thing].x, w.mobj[thing].y)],
            thing),
        thing)

\* the part of P_RemoveMobj that concerns position and membership
RemoveSeclist(w, thing) ==
    [w EXCEPT !.heap = [P_DelSeclist(w.heap, w.heap.sector_list)
                          EXCEPT !.sector_list = NULL],
              !.mobj[thing].linked = FALSE]

P_RemoveMobj(w, thing) == RemoveSeclist(P_UnsetThingPosition(w, thing), thing)

\* the world the operations act on, as one value
World ==
    [mobj |-> mobj, sectors |-> sectors, heap |-> heap,
     blocklinks |-> blocklinks, tm |-> tm, dmg |-> <<>>, crossed |-> <<>>,
     scanned |-> <<>>]

----------------------------------------------------------------------------
(* Reading the threads *)

\* the nodes on a thing thread from node, following m_tnext (fuel stops a
\* corrupted, cyclic thread)
RECURSIVE TThread(_, _, _)
TThread(nd, node, fuel) ==
    IF node = NULL \/ fuel = 0 THEN <<>>
    ELSE <<node>> \o TThread(nd, nd[node].m_tnext, fuel - 1)

\* the nodes on a sector thread from node, following m_snext
RECURSIVE SThread(_, _, _)
SThread(nd, node, fuel) ==
    IF node = NULL \/ fuel = 0 THEN <<>>
    ELSE <<node>> \o SThread(nd, nd[node].m_snext, fuel - 1)

Range(q) == {q[i] : i \in 1 .. Len(q)}

ThingThread(t) == TThread(heap.node, mobj[t].touching_sectorlist, MaxNodes + 1)
SectorThread(s) == SThread(heap.node, heap.touching_thinglist[s], MaxNodes + 1)
FreeList == SThread(heap.node, heap.headsecnode, MaxNodes + 1)

\* the (sector, node) pairs of a thing's thread
Held(t) == {<<heap.node[n].m_sector, n>> : n \in Range(ThingThread(t))}

\* the sectors a thing is a member of
MemberSectors(t) == {heap.node[n].m_sector : n \in Range(ThingThread(t))}

----------------------------------------------------------------------------
(* Collaborators outside p_map.c, by their call contract *)

\* P_ApproxDistance(dx, dy)
ApproxDistance(dx, dy) ==
    IF dx < dy THEN dx + dy - SHR(dx, 1) ELSE dx + dy - SHR(dy, 1)

P_ApproxDistance(dx, dy) == ApproxDistance(ABS(dx), ABS(dy))

\* C's a / 2 on an int: truncation toward zero
Half(a) == IF a < 0 THEN -((-a) \div 2) ELSE a \div 2

\* P_LineOpening(ld) of a two-sided line: openbottom, opentop, lowfloor
P_LineOpening(sec, ld) ==
    [opentop |-> MIN(sec[ld.frontsector].ceilingheight,
                     sec[ld.backsector].ceilingheight),
     openbottom |-> MAX(sec[ld.frontsector].floorheight,
                        sec[ld.backsector].floorheight),
     lowfloor |-> MIN(sec[ld.frontsector].floorheight,
                      sec[ld.backsector].floorheight)]

\* P_DamageMobj(target, inflictor, source, damage): the call is logged; the
\* target loses the health and, at zero, dies (no longer shootable, a corpse)
P_DamageMobj(w, target, inflictor, source, damage) ==
    [w EXCEPT
       !.dmg = Append(@, [target |-> target, inflictor |-> inflictor,
                          source |-> source, damage |-> damage]),
       !.mobj[target].health = @ - damage,
       !.mobj[target].flags =
           IF w.mobj[target].health - damage <= 0
           THEN (@ \ {"MF_SHOOTABLE", "MF_FLOAT", "MF_SKULLFLY"}) \cup {"MF_CORPSE"}
           ELSE @]

\* P_TouchSpecialThing(special, toucher): the pickup is taken and removed, or
\* left where it is (the toucher has no use for it)
P_TouchSpecialThing(w, special, toucher, taken) ==
    IF taken THEN P_RemoveMobj(w, special) ELSE w

----------------------------------------------------------------------------
(* Friction: P_GetFriction *)

Friction(friction, movefactor) == [friction |-> friction, movefactor |-> movefactor]

\* the loop body of P_GetFriction: sector sec (its heightsec hsec, or NULL)
\* against the friction f found so far
FrictionOf(sec, hsec, z, f) ==
    IF /\ "FRICTION" \in sec.special
       /\ (sec.friction < f.friction \/ f.friction = ORIG_FRICTION)
       /\ (z <= sec.floorheight \/ (hsec # NULL /\ z <= hsec.floorheight))
    THEN Friction(sec.friction, sec.movefactor)
    ELSE f

HeightSec(sec, s) == IF s.heightsec = NULL THEN NULL ELSE sec[s.heightsec]

\* for (m = mo->touching_sectorlist; m; m = m->m_tnext) over the thread q
RECURSIVE FrictionScan(_, _, _, _, _, _)
FrictionScan(sec, nd, q, i, z, f) ==
    IF i > Len(q) THEN f
    ELSE FrictionScan(sec, nd, q, i + 1, z,
                      FrictionOf(sec[nd[q[i]].m_sector],
                                 HeightSec(sec, sec[nd[q[i]].m_sector]), z, f))

\* P_GetFriction(mo, &frictionfactor)
P_GetFriction(w, m) ==
    IF m.flags \cap {"MF_NOCLIP", "MF_NOGRAVITY"} # {}
    THEN Friction(ORIG_FRICTION, ORIG_FRICTION_FACTOR)
    ELSE FrictionScan(w.sectors, w.heap.node,
                      TThread(w.heap.node, m.touching_sectorlist, MaxNodes),
                      1, m.z, Friction(ORIG_FRICTION, ORIG_FRICTION_FACTOR))

----------------------------------------------------------------------------
(* The position validator: PIT_CheckThing, PIT_CheckLine, P_CheckPosition *)

TICRATE == 35

\* what an iterator callback returns: the world it leaves and true to go on
Ret(w, ok) == [w |-> w, ok |-> ok]

\* the random draws one call may consume: M_RandomInt(-1, 1), then
\* M_RandomIntNoRepeat(-1, 1, ...) (never 0 after a 0), (M_Random() & 7) + 1,
\* and whether P_TouchSpecialThing finds the pickup of use
Draws ==
    {[r |-> 0, r2 |-> 1, roll |-> 1, taken |-> TRUE],
     [r |-> 1, r2 |-> 0, roll |-> 8, taken |-> FALSE],
     [r |-> -1, r2 |-> -1, roll |-> 8, taken |-> TRUE]}

\* [BH] the corpse after a monster walked over it
NudgedCorpse(m, rnd) ==
    IF "MF2_FEETARECLIPPED" \in m.flags2
    THEN [m EXCEPT !.momx = m.momx + FRACUNIT * rnd.r,
                   !.momy = m.momy + FRACUNIT * rnd.r2,
                   !.nudge = TICRATE]
    ELSE [m EXCEPT !.momx = Half(m.momx + FRACUNIT * rnd.r),
                   !.momy = Half(m.momy + FRACUNIT * rnd.r2),
                   !.nudge = TICRATE]

\* PIT_CheckThing: apply a small momentum to a corpse a monster walks over
NudgeCorpse(w, th, mv, thing, rnd) ==
    IF /\ "MF_CORPSE" \in th.flags
       /\ "MF_SHOOTABLE" \in mv.flags
       /\ th.type # "MT_BARREL"
       /\ th.nudge = 0
       /\ th.z = mv.z
       /\ env.r_corpses_nudge
       /\ P_ApproxDistance(th.x - mv.x, th.y - mv.y) < 16 * FRACUNIT
    THEN [w EXCEPT !.mobj[thing] = NudgedCorpse(th, rnd)]
    ELSE w

\* [BH] things that are stuck may move if it takes them further apart
Unblocking(w, th, mv) ==
    /\ th.player = "none"
    /\ "MF_CORPSE" \notin th.flags
    /\ \/ (w.tm.tmx = mv.x /\ w.tm.tmy = mv.y)
       \/ /\ P_ApproxDistance(th.x - w.tm.tmx, th.y - w.tm.tmy)
               > P_ApproxDistance(th.x - mv.x, th.y - mv.y)
          /\ mv.z < th.z + th.height
          /\ mv.z + mv.height > th.z

\* a lost soul slams into the thing
SkullSlam(w, thing, tmthing, rnd) ==
    Ret([P_DamageMobj(w, thing, tmthing, tmthing,
                      rnd.roll * w.mobj[tmthing].damage)
           EXCEPT !.mobj[tmthing].flags = @ \ {"MF_SKULLFLY"},
                  !.mobj[tmthing].momx = 0,
                  !.mobj[tmthing].momy = 0,
                  !.mobj[tmthing].momz = 0],
        FALSE)

SameSpecies(a, b) ==
    \/ a = b
    \/ (a = "MT_KNIGHT" /\ b = "MT_BRUISER")
    \/ (a = "MT_BRUISER" /\ b = "MT_KNIGHT")

\* the missile damages and explodes; a rocket counts its hits
MissileDamage(w, th, mv, thing, tmthing, rnd) ==
    Ret([P_DamageMobj(w, thing, tmthing, mv.target, rnd.roll * mv.damage)
           EXCEPT !.mobj[tmthing].nudge =
                      IF th.type # "MT_BARREL" /\ mv.type = "MT_ROCKET"
                      THEN @ + 1 ELSE @],
        FALSE)

\* killough 8/10/98: the mover is not a missile: no damage, momentum is
\* reversed and reduced if the object hit is solid
Deflect(w, th, mv, tmthing) ==
    IF "MF_SOLID" \notin th.flags THEN Ret(w, TRUE)
    ELSE IF "MF_NOGRAVITY" \in mv.flags
    THEN Ret([w EXCEPT !.mobj[tmthing].momx = -mv.momx,
                       !.mobj[tmthing].momy = -mv.momy], FALSE)
    ELSE Ret([w EXCEPT !.mobj[tmthing].momx = SHR(-mv.momx, 2),
                       !.mobj[tmthing].momy = SHR(-mv.momy, 2)], FALSE)

PassHeight(th) ==
    IF th.projectilepassheight = 0 \/ env.infiniteheight
    THEN th.height ELSE th.projectilepassheight

\* variant: a missile is deflected by a solid thing
MissileHit_Deflects(w, th, mv, thing, tmthing, rnd) ==
    IF mv.z > th.z + PassHeight(th) THEN Ret(w, TRUE)
    ELSE IF mv.z + mv.height < th.z THEN Ret(w, TRUE)
    ELSE IF /\ mv.target # NULL
            /\ SameSpecies(w.mobj[mv.target].type, th.type)
            /\ thing = mv.target
    THEN Ret(w, TRUE)
    ELSE IF /\ mv.target # NULL
            /\ SameSpecies(w.mobj[mv.target].type, th.type)
            /\ th.type # "MT_PLAYER"
            /\ ~env.infight
            /\ ~env.species_infighting
    THEN Ret(w, FALSE)
    ELSE IF "MF_MISSILE" \notin th.flags THEN Deflect(w, th, mv, tmthing)
    ELSE IF "MF_SHOOTABLE" \notin th.flags
    THEN Ret(w, "MF_SOLID" \notin th.flags)
    ELSE MissileDamage(w, th, mv, thing, tmthing, rnd)

\* PIT_CheckThing: missiles can hit other things
MissileHit(w, th, mv, thing, tmthing, rnd) ==
    IF mv.z > th.z + PassHeight(th) THEN Ret(w, TRUE)
    ELSE IF mv.z + mv.height < th.z THEN Ret(w, TRUE)
    ELSE IF /\ mv.target # NULL
            /\ SameSpecies(w.mobj[mv.target].type, th.type)
            /\ thing = mv.target
    THEN Ret(w, TRUE)
    ELSE IF /\ mv.target # NULL
            /\ SameSpecies(w.mobj[mv.target].type, th.type)
            /\ th.type # "MT_PLAYER"
            /\ ~env.infight
            /\ ~env.species_infighting
    THEN Ret(w, FALSE)
    ELSE IF "MF_MISSILE" \notin mv.flags THEN Deflect(w, th, mv, tmthing)
    ELSE IF "MF_SHOOTABLE" \notin th.flags
    THEN Ret(w, "MF_SOLID" \notin th.flags)
    ELSE MissileDamage(w, th, mv, thing, tmthing, rnd)

\* PIT_CheckThing once the things overlap; th and mv are thing's and the
\* mover's fields as read on entry
CheckThingHit(w, th, mv, thing, tmthing, rnd) ==
    IF /\ "MF2_PASSMOBJ" \in mv.flags2
       /\ ~env.infiniteheight
       /\ "MF_SPECIAL" \notin th.flags
       /\ (mv.z >= th.z + th.height \/ mv.z + mv.height <= th.z)
    THEN Ret(w, TRUE)
    ELSE IF /\ "MF_SKULLFLY" \in mv.flags
            /\ ("MF_SOLID" \in th.flags \/ env.infiniteheight)
    THEN SkullSlam(w, thing, tmthing, rnd)
    ELSE IF "MF_MISSILE" \in mv.flags
    THEN MissileHit(w, th, mv, thing, tmthing, rnd)
    ELSE IF "MF_SPECIAL" \in th.flags
    THEN Ret(IF "MF_PICKUP" \in mv.flags
             THEN P_TouchSpecialThing(w, thing, tmthing, rnd.taken) ELSE w,
             "MF_SOLID" \notin th.flags)
    ELSE IF /\ "MF2_RESURRECTING" \notin th.flags2
            /\ ("MF_CORPSE" \in th.flags \/ "MF_CORPSE" \in mv.flags)
            /\ th.type # "MT_BARREL"
    THEN Ret(w, TRUE)
    ELSE IF /\ {"MF_SOLID", "MF_SPAWNCEILING"} \subseteq th.flags
            /\ mv.z + mv.height <= th.z
    THEN Ret([w EXCEPT !.tm.tmceilingz = th.z], TRUE)
    ELSE Ret(w, \/ ~(/\ "MF_SOLID" \in th.flags
                     /\ "MF_NOCLIP" \notin th.flags
                     /\ ~env.freeze
                     /\ "MF_SOLID" \in mv.flags)
                \/ Unblocking(w, th, mv))

\* PIT_CheckThing after the nudge: is the thing of a kind and at a place
\* that matters?
CheckThingNear(w, th, mv, thing, tmthing, rnd) ==
    IF th.flags \cap {"MF_SOLID", "MF_SPECIAL", "MF_SHOOTABLE"} = {}
    THEN Ret(w, TRUE)
    ELSE IF \/ ABS(th.x - w.tm.tmx) >= th.pickupradius + mv.radius
            \/ ABS(th.y - w.tm.tmy) >= th.pickupradius + mv.radius
    THEN Ret(w, TRUE)
    ELSE CheckThingHit(w, th, mv, thing, tmthing, rnd)

\* PIT_CheckThing(thing)
PIT_CheckThing(w, thing, rnd) ==
    IF thing = w.tm.tmthing THEN Ret(w, TRUE)
    ELSE CheckThingNear(
             NudgeCorpse(w, w.mobj[thing], w.mobj[w.tm.tmthing], thing, rnd),
             w.mobj[thing], w.mobj[w.tm.tmthing], thing, w.tm.tmthing, rnd)

\* untouched(ld) about a thing at (x, y): no intersection between the thing
\* and the line assuming no movement occurs
UntouchedAt(x, y, tmradius, ld) ==
    \/ x + tmradius <= ld.bbox[BOXLEFT]
    \/ x - tmradius >= ld.bbox[BOXRIGHT]
    \/ y + tmradius <= ld.bbox[BOXBOTTOM]
    \/ y - tmradius >= ld.bbox[BOXTOP]
    \/ P_BoxOnLineSide(Box(y + tmradius, y - tmradius,
                           x - tmradius, x + tmradius), ld) # -1

untouched(w, l) ==
    UntouchedAt(w.mobj[w.tm.tmthing].x, w.mobj[w.tm.tmthing].y,
                w.mobj[w.tm.tmthing].radius, lines[l])

\* variant: the lowest floor across the line is not taken
AdjustOpening_NoDropoff(t, o, l) ==
    [t EXCEPT
       !.tmceilingz = IF o.opentop < @ THEN o.opentop ELSE @,
       !.ceilingline = IF o.opentop < t.tmceilingz THEN l ELSE @,
       !.tmfloorz = IF o.openbottom > @ THEN o.openbottom ELSE @,
       !.floorline = IF o.openbottom > t.tmfloorz THEN l ELSE @,
       !.blockline = IF o.opentop < t.tmceilingz \/ o.openbottom > t.tmfloorz
                     THEN l ELSE @]

\* PIT_CheckLine: adjust tmfloorz, tmceilingz and tmdropoffz to the opening
\* o of line l, remembering the line that tightened each
AdjustOpening(t, o, l) ==
    [t EXCEPT
       !.tmceilingz = IF o.opentop < @ THEN o.opentop ELSE @,
       !.ceilingline = IF o.opentop < t.tmceilingz THEN l ELSE @,
       !.tmfloorz = IF o.openbottom > @ THEN o.openbottom ELSE @,
       !.floorline = IF o.openbottom > t.tmfloorz THEN l ELSE @,
       !.blockline = IF o.opentop < t.tmceilingz \/ o.openbottom > t.tmfloorz
                     THEN l ELSE @,
       !.tmdropoffz = IF o.lowfloor < @ THEN o.lowfloor ELSE @]

\* variant: the array is doubled one line too late
AddSpechit_Late(t, l) ==
    [t EXCEPT
       !.spechit_max = IF t.numspechit > @
                       THEN (IF @ # 0 THEN @ * 2 ELSE 8) ELSE @,
       !.spechit = Append(SubSeq(@, 1, t.numspechit), l),
       !.numspechit = @ + 1]

\* PIT_CheckLine: spechit[numspechit++] = ld, the array doubled when full
\* (entries past numspechit are never read and are not kept)
AddSpechit(t, l) ==
    [t EXCEPT
       !.spechit_max = IF t.numspechit >= @
                       THEN (IF @ # 0 THEN @ * 2 ELSE 8) ELSE @,
       !.spechit = Append(SubSeq(@, 1, t.numspechit), l),
       !.numspechit = @ + 1]

CheckLineOpen(t, sec, ld, l) ==
    IF ld.special # 0
    THEN AddSpechit(AdjustOpening(t, P_LineOpening(sec, ld), l), l)
    ELSE AdjustOpening(t, P_LineOpening(sec, ld), l)

\* variant: a monster-blocking line stops corpses too
CheckLineHit_Corpses(w, ld, l, mv) ==
    IF ld.backsector = NULL
    THEN Ret([w EXCEPT !.tm.blockline = l],
             /\ w.tm.tmunstuck
             /\ ~untouched(w, l)
             /\ FixedMul(w.tm.tmx - mv.x, ld.dy)
                  > FixedMul(w.tm.tmy - mv.y, ld.dx))
    ELSE IF "MF_MISSILE" \notin mv.flags /\ "ML_BLOCKING" \in ld.flags
    THEN Ret(w, w.tm.tmunstuck /\ ~untouched(w, l))
    ELSE IF /\ "MF_MISSILE" \notin mv.flags
            /\ mv.player = "none"
            /\ "MF_FRIEND" \notin mv.flags
            /\ "ML_BLOCKMONSTERS" \in ld.flags
    THEN Ret(w, FALSE)
    ELSE Ret([w EXCEPT !.tm = CheckLineOpen(w.tm, w.sectors, ld, l)], TRUE)

\* PIT_CheckLine once the box is known to cross the line
CheckLineHit(w, ld, l, mv) ==
    IF ld.backsector = NULL
    THEN Ret([w EXCEPT !.tm.blockline = l],
             /\ w.tm.tmunstuck
             /\ ~untouched(w, l)
             /\ FixedMul(w.tm.tmx - mv.x, ld.dy)
                  > FixedMul(w.tm.tmy - mv.y, ld.dx))
    ELSE IF "MF_MISSILE" \notin mv.flags /\ "ML_BLOCKING" \in ld.flags
    THEN Ret(w, w.tm.tmunstuck /\ ~untouched(w, l))
    ELSE IF /\ "MF_MISSILE" \notin mv.flags
            /\ mv.player = "none"
            /\ "MF_CORPSE" \notin mv.flags
            /\ "MF_FRIEND" \notin mv.flags
            /\ "ML_BLOCKMONSTERS" \in ld.flags
    THEN Ret(w, FALSE)
    ELSE Ret([w EXCEPT !.tm = CheckLineOpen(w.tm, w.sectors, ld, l)], TRUE)

\* PIT_CheckLine(ld)
PIT_CheckLine(w, l) ==
    IF \/ w.tm.tmbbox[BOXRIGHT] <= lines[l].bbox[BOXLEFT]
       \/ w.tm.tmbbox[BOXLEFT] >= lines[l].bbox[BOXRIGHT]
       \/ w.tm.tmbbox[BOXTOP] <= lines[l].bbox[BOXBOTTOM]
       \/ w.tm.tmbbox[BOXBOTTOM] >= lines[l].bbox[BOXTOP]
    THEN Ret(w, TRUE)
    ELSE IF P_BoxOnLineSide(w.tm.tmbbox, lines[l]) # -1 THEN Ret(w, TRUE)
    ELSE CheckLineHit(w, lines[l], l, w.mobj[w.tm.tmthing])

\* P_BlockThingsIterator over the cell's list q, stopping at the first false
RECURSIVE CheckThings(_, _, _, _)
CheckThingsNext(r, q, i, rnd) ==
    IF r.ok THEN CheckThings(r.w, q, i + 1, rnd) ELSE r

CheckThings(w, q, i, rnd) ==
    IF i > Len(q) THEN Ret(w, TRUE)
    ELSE CheckThingsNext(PIT_CheckThing(w, q[i], rnd), q, i, rnd)

\* P_BlockLinesIterator over the cell's lines, stopping at the first false
RECURSIVE CheckLines(_, _)
CheckLinesNext(r, i) ==
    IF r.ok THEN CheckLines(r.w, i + 1) ELSE r

CheckLines(w, i) ==
    IF i > Len(lines) THEN Ret(w, TRUE)
    ELSE CheckLinesNext(PIT_CheckLine(w, i), i)

\* P_CheckPosition: the scratch state before anything is iterated
CheckPositionStart(t, thing, m, x, y, newsec) ==
    [t EXCEPT
       !.tmthing = thing, !.tmx = x, !.tmy = y,
       !.tmbbox = Box(y + m.radius, y - m.radius, x - m.radius, x + m.radius),
       !.floorline = NULL, !.blockline = NULL, !.ceilingline = NULL,
       !.tmunstuck = (m.player = "real"),
       !.tmfloorz = newsec.floorheight,
       !.tmdropoffz = newsec.floorheight,
       !.tmceilingz = newsec.ceilingheight,
       !.numspechit = 0]

\* P_CheckPosition: lines are checked against the pickup radius once the
\* position differs from the thing's own
CheckPositionBox(w, m, x, y) ==
    IF "MF_DROPPED" \notin m.flags /\ (m.x # x \/ m.y # y)
    THEN [w EXCEPT !.tm.tmbbox = Box(y + m.pickupradius, y - m.pickupradius,
                                     x - m.pickupradius, x + m.pickupradius)]
    ELSE w

CheckPositionLines(r, thing, x, y) ==
    IF r.ok THEN CheckLines(CheckPositionBox(r.w, r.w.mobj[thing], x, y), 1)
    ELSE r

CheckPositionFrom(w, thing, x, y, rnd) ==
    IF "MF_NOCLIP" \in w.mobj[thing].flags \/ env.freeze THEN Ret(w, TRUE)
    ELSE CheckPositionLines(CheckThings(w, w.blocklinks, 1, rnd), thing, x, y)

\* P_CheckPosition(thing, x, y)
P_CheckPosition(w, thing, x, y, rnd) ==
    CheckPositionFrom(
        [w EXCEPT !.tm = CheckPositionStart(
                             @, thing, w.mobj[thing], x, y,
                             w.sectors[R_PointInSubsector(x, y)])],
        thing, x, y, rnd)

----------------------------------------------------------------------------
(* The mover: P_TryMove *)

\* what P_TryMove leaves: the world, its return value and the return
\* statement taken ("validator", "fit", "step", "dropoff", "falling", "linked")
Moved(w, ok, at) == [w |-> w, ok |-> ok, at |-> at]

\* P_IsInLiquid(thing)
P_IsInLiquid(w, m) ==
    IF "MF_SHOOTABLE" \notin m.flags
    THEN w.sectors[m.subsector].terraintype # "SOLID"
    ELSE \A n \in Range(TThread(w.heap.node, m.touching_sectorlist, MaxNodes)) :
            w.sectors[w.heap.node[n].m_sector].terraintype # "SOLID"

\* [BH] check if new sector is liquid and clip/unclip feet as necessary
ClipFeet(w, thing) ==
    IF "MF2_FOOTCLIP" \in w.mobj[thing].flags2 /\ P_IsInLiquid(w, w.mobj[thing])
    THEN [w EXCEPT !.mobj[thing].flags2 = @ \cup {"MF2_FEETARECLIPPED"}]
    ELSE [w EXCEPT !.mobj[thing].flags2 = @ \ {"MF2_FEETARECLIPPED"}]

\* P_CrossSpecialLine(ld, oldside, thing): the trigger is logged
P_CrossSpecialLine(w, l, oldside, thing) ==
    [w EXCEPT !.crossed = Append(@, [line |-> l, side |-> oldside,
                                     thing |-> thing])]

\* variant: every special line in the list is triggered
CrossOne_Touched(w, l, m, oldx, oldy, thing) ==
    IF lines[l].special # 0
    THEN P_CrossSpecialLine(w, l, P_PointOnLineSide(oldx, oldy, lines[l]), thing)
    ELSE w

\* the body of while (numspechit--), numspechit already decremented
CrossOne(w, l, m, oldx, oldy, thing) ==
    IF /\ P_PointOnLineSide(oldx, oldy, lines[l])
            # P_PointOnLineSide(m.x, m.y, lines[l])
       /\ lines[l].special # 0
    THEN P_CrossSpecialLine(w, l, P_PointOnLineSide(oldx, oldy, lines[l]), thing)
    ELSE w

\* variant: the list is read from its first entry to its last
RECURSIVE CrossForward(_, _, _, _, _)
CrossForward(w, i, thing, oldx, oldy) ==
    IF i > w.tm.numspechit THEN [w EXCEPT !.tm.numspechit = -1]
    ELSE CrossForward(CrossOne(w, w.tm.spechit[i], w.mobj[thing], oldx, oldy,
                               thing),
                      i + 1, thing, oldx, oldy)

CrossLoop_Forward(w, thing, oldx, oldy) == CrossForward(w, 1, thing, oldx, oldy)

\* while (numspechit--): the loop leaves numspechit at -1
RECURSIVE CrossLoop(_, _, _, _)
CrossLoop(w, thing, oldx, oldy) ==
    IF w.tm.numspechit = 0 THEN [w EXCEPT !.tm.numspechit = -1]
    ELSE CrossLoop(CrossOne([w EXCEPT !.tm.numspechit = @ - 1],
                            w.tm.spechit[w.tm.numspechit],
                            w.mobj[thing], oldx, oldy, thing),
                   thing, oldx, oldy)

\* if any special lines were hit, do the effect
CrossLines(w, thing, oldx, oldy) ==
    IF /\ w.mobj[thing].flags \cap {"MF_TELEPORT", "MF_NOCLIP"} = {}
       /\ ~env.freeze
    THEN CrossLoop(w, thing, oldx, oldy)
    ELSE w

\* variant: the cached floorz, ceilingz and dropoffz are not refreshed
TryMoveCommit_StaleHeights(w, m, thing, x, y) ==
    Moved(CrossLines(
              ClipFeet(
                  P_SetThingPosition(
                      [P_UnsetThingPosition(w, thing)
                         EXCEPT !.mobj[thing].x = x,
                                !.mobj[thing].y = y],
                      thing),
                  thing),
              thing, m.x, m.y),
          TRUE, "linked")

\* the move is ok, so link the thing into its new position
TryMoveCommit(w, m, thing, x, y) ==
    Moved(CrossLines(
              ClipFeet(
                  P_SetThingPosition(
                      [P_UnsetThingPosition(w, thing)
                         EXCEPT !.mobj[thing].floorz = w.tm.tmfloorz,
                                !.mobj[thing].ceilingz = w.tm.tmceilingz,
                                !.mobj[thing].dropoffz = w.tm.tmdropoffz,
                                !.mobj[thing].x = x,
                                !.mobj[thing].y = y],
                      thing),
                  thing),
              thing, m.x, m.y),
          TRUE, "linked")

\* killough 8/1/98: possibly allow escape if otherwise stuck
Unstuck(w) ==
    /\ w.tm.tmunstuck
    /\ ~(w.tm.ceilingline # NULL /\ untouched(w, w.tm.ceilingline))
    /\ ~(w.tm.floorline # NULL /\ untouched(w, w.tm.floorline))

\* killough 11/98: prevent falling objects from going up too many steps
TryMoveFalling(w, m, thing, x, y) ==
    IF /\ "MF2_FALLING" \in m.flags2
       /\ w.tm.tmfloorz - m.z > FixedMul(m.momx, m.momx) + FixedMul(m.momy, m.momy)
    THEN Moved(w, FALSE, "falling")
    ELSE TryMoveCommit(w, m, thing, x, y)

\* variant: the thing is unlinked before the dropoff rules are consulted
TryMoveDropoff_Unlinked(w, m, thing, x, y, dropoff) ==
    IF m.flags \cap {"MF_DROPOFF", "MF_FLOAT"} # {}
    THEN TryMoveFalling(w, m, thing, x, y)
    ELSE IF dropoff
    THEN TryMoveFalling(
             [w EXCEPT !.tm.felldown = /\ "MF_NOGRAVITY" \notin m.flags
                                       /\ m.z - w.tm.tmfloorz > MAXSTEP],
             m, thing, x, y)
    ELSE IF \/ m.floorz - w.tm.tmfloorz > MAXSTEP
            \/ m.dropoffz - w.tm.tmdropoffz > MAXSTEP
    THEN Moved(P_UnsetThingPosition(w, thing), FALSE, "dropoff")
    ELSE TryMoveFalling(w, m, thing, x, y)

\* variant: only the floor is compared, not the dropoff
TryMoveDropoff_FloorOnly(w, m, thing, x, y, dropoff) ==
    IF m.flags \cap {"MF_DROPOFF", "MF_FLOAT"} # {}
    THEN TryMoveFalling(w, m, thing, x, y)
    ELSE IF dropoff
    THEN TryMoveFalling(
             [w EXCEPT !.tm.felldown = /\ "MF_NOGRAVITY" \notin m.flags
                                       /\ m.z - w.tm.tmfloorz > MAXSTEP],
             m, thing, x, y)
    ELSE IF m.floorz - w.tm.tmfloorz > MAXSTEP
    THEN Moved(w, FALSE, "dropoff")
    ELSE TryMoveFalling(w, m, thing, x, y)

\* the dropoff rules, for things with neither MF_DROPOFF nor MF_FLOAT
TryMoveDropoff(w, m, thing, x, y, dropoff) ==
    IF m.flags \cap {"MF_DROPOFF", "MF_FLOAT"} # {}
    THEN TryMoveFalling(w, m, thing, x, y)
    ELSE IF dropoff
    THEN TryMoveFalling(
             [w EXCEPT !.tm.felldown = /\ "MF_NOGRAVITY" \notin m.flags
                                       /\ m.z - w.tm.tmfloorz > MAXSTEP],
             m, thing, x, y)
    ELSE IF \/ m.floorz - w.tm.tmfloorz > MAXSTEP
            \/ m.dropoffz - w.tm.tmdropoffz > MAXSTEP
    THEN Moved(w, FALSE, "dropoff")
    ELSE TryMoveFalling(w, m, thing, x, y)

\* variant: no limit on the step up
TryMoveStep_NoLimit(w, m, thing, x, y, dropoff) ==
    IF "MF_TELEPORT" \notin m.flags /\ w.tm.tmceilingz - m.z < m.height
    THEN Moved(w, Unstuck(w), "step")
    ELSE TryMoveDropoff(w, m, thing, x, y, dropoff)

\* variant: a step of exactly 24 units is already too big
TryMoveStep_Inclusive(w, m, thing, x, y, dropoff) ==
    IF /\ "MF_TELEPORT" \notin m.flags
       /\ \/ w.tm.tmceilingz - m.z < m.height
          \/ w.tm.tmfloorz - m.z >= MAXSTEP
    THEN Moved(w, Unstuck(w), "step")
    ELSE TryMoveDropoff(w, m, thing, x, y, dropoff)

\* mobj must lower to fit, or too big a step up (floatok is already set)
TryMoveStep(w, m, thing, x, y, dropoff) ==
    IF /\ "MF_TELEPORT" \notin m.flags
       /\ \/ w.tm.tmceilingz - m.z < m.height
          \/ w.tm.tmfloorz - m.z > MAXSTEP
    THEN Moved(w, Unstuck(w), "step")
    ELSE TryMoveDropoff(w, m, thing, x, y, dropoff)

\* P_TryMove after the validator passed; m is the thing as the validator left it
TryMoveClip(w, m, thing, x, y, dropoff) ==
    IF "MF_NOCLIP" \in m.flags \/ env.freeze
    THEN TryMoveCommit(w, m, thing, x, y)
    ELSE IF w.tm.tmceilingz - w.tm.tmfloorz < m.height
    THEN Moved(w, Unstuck(w), "fit")
    ELSE TryMoveStep([w EXCEPT !.tm.floatok = TRUE], m, thing, x, y, dropoff)

TryMoveChecked(r, thing, x, y, dropoff) ==
    IF r.ok THEN TryMoveClip(r.w, r.w.mobj[thing], thing, x, y, dropoff)
    ELSE Moved(r.w, FALSE, "validator")

\* P_TryMove(thing, x, y, dropoff)
P_TryMove(w, thing, x, y, dropoff, rnd) ==
    TryMoveChecked(
        P_CheckPosition([w EXCEPT !.tm.felldown = FALSE, !.tm.floatok = FALSE],
                        thing, x, y, rnd),
        thing, x, y, dropoff)

----------------------------------------------------------------------------
(* The slider: P_PathTraverse's line intercepts, PTR_SlideTraverse,        *)
(* P_HitSlideLine and the steps of P_SlideMove                             *)

MAXINT == 2147483647
SLIDEFUDGE == 2048
MAXHITCOUNT == 3

\* FixedDiv: ((int64_t)a << FRACBITS) / b, saturated when the quotient
\* does not fit
\* (a << FRACBITS) / b of non-negative a and positive b, the 64-bit
\* dividend taken a byte at a time
ShiftDiv(a, b) ==
    (a \div b) * FRACUNIT + (((a % b) * 256) \div b) * 256
        + (((((a % b) * 256) % b) * 256) \div b)

FixedDiv(a, b) ==
    IF SHR(ABS(a), 14) >= ABS(b)
    THEN (IF (a < 0) # (b < 0) THEN -MAXINT - 1 ELSE MAXINT)
    ELSE IF (a < 0) # (b < 0) THEN -ShiftDiv(ABS(a), ABS(b))
    ELSE ShiftDiv(ABS(a), ABS(b))

\* PIT_AddLineIntercepts: the lines whose sides differ at the two ends of
\* the trace, each with the fraction of the trace at which it is crossed
InterceptFrac(x1, x2, ld) == FixedDiv(ld.v1x - x1, x2 - x1)

Intercepts(x1, y1, x2, y2) ==
    {l \in Lines : /\ P_PointOnLineSide(x1, y1, lines[l])
                        # P_PointOnLineSide(x2, y2, lines[l])
                   /\ InterceptFrac(x1, x2, lines[l]) >= 0}

\* P_TraverseIntercepts: the nearest intercept not yet visited (the first
\* found among equals)
NearestIntercept(S, x1, x2) ==
    CHOOSE l \in S :
        \A k \in S : \/ InterceptFrac(x1, x2, lines[l]) < InterceptFrac(x1, x2, lines[k])
                     \/ /\ InterceptFrac(x1, x2, lines[l]) = InterceptFrac(x1, x2, lines[k])
                        /\ l <= k

\* isblocking: see if it is closer than best so far
SlideBlocking(sl, l, frac) ==
    IF frac < sl.bestslidefrac
    THEN [sl EXCEPT !.bestslidefrac = frac, !.bestslideline = l]
    ELSE sl

\* PTR_SlideTraverse(in): true when the line does not block the sliding thing
SlideLineOpen(m, ld, o) ==
    IF "ML_TWOSIDED" \notin ld.flags
    THEN P_PointOnLineSide(m.x, m.y, ld) # 0
    ELSE /\ o.opentop - o.openbottom >= m.height
         /\ o.opentop - m.z >= m.height
         /\ o.openbottom - m.z <= MAXSTEP

PTR_SlideTraverse(w, sl, l, frac) ==
    IF SlideLineOpen(w.mobj[sl.slidemo], lines[l],
                     IF lines[l].backsector = NULL
                     THEN [opentop |-> 0, openbottom |-> 0, lowfloor |-> 0]
                     ELSE P_LineOpening(w.sectors, lines[l]))
    THEN Ret(sl, TRUE)
    ELSE Ret(SlideBlocking(sl, l, frac), FALSE)

\* P_TraverseIntercepts(PTR_SlideTraverse, FRACUNIT)
RECURSIVE TraverseIntercepts(_, _, _, _, _)
TraverseNext(w, r, S, x1, x2) ==
    IF r.ok THEN TraverseIntercepts(w, r.w, S, x1, x2) ELSE r.w

TraverseAt(w, sl, S, l, x1, x2) ==
    IF InterceptFrac(x1, x2, lines[l]) > FRACUNIT THEN sl
    ELSE TraverseNext(w, PTR_SlideTraverse(w, sl, l, InterceptFrac(x1, x2, lines[l])),
                      S \ {l}, x1, x2)

TraverseIntercepts(w, sl, S, x1, x2) ==
    IF S = {} THEN sl
    ELSE TraverseAt(w, sl, S, NearestIntercept(S, x1, x2), x1, x2)

\* P_PathTraverse(x1, y1, x2, y2, PT_ADDLINES, PTR_SlideTraverse)
P_PathTraverse(w, sl, x1, y1, x2, y2) ==
    TraverseIntercepts(w, sl, Intercepts(x1, y1, x2, y2), x1, x2)

\* P_HitSlideLine: is the floor icy and the wall hit hard?
IcyFloor(w, sl, m) ==
    /\ P_ApproxDistance(sl.tmxmove, sl.tmymove) > 4 * FRACUNIT
    /\ m.z <= m.floorz
    /\ P_GetFriction(w, m).friction > ORIG_FRICTION

\* P_HitSlideLine(ld) for the slope types of the corridor's lines:
\* ST_HORIZONTAL (dy = 0) and ST_VERTICAL (dx = 0)
HitSlideLine(sl, ld, icyfloor) ==
    CASE ld.dy = 0 ->
           IF icyfloor /\ ABS(sl.tmymove) > ABS(sl.tmxmove)
           THEN [sl EXCEPT !.tmxmove = Half(@), !.tmymove = Half(-@)]
           ELSE [sl EXCEPT !.tmymove = 0]
      [] ld.dy # 0 /\ ld.dx = 0 ->
           IF icyfloor /\ ABS(sl.tmxmove) > ABS(sl.tmymove)
           THEN [sl EXCEPT !.tmxmove = Half(-@), !.tmymove = Half(@)]
           ELSE [sl EXCEPT !.tmxmove = 0]

P_HitSlideLine(w, sl, l) ==
    HitSlideLine(sl, lines[l], IcyFloor(w, sl, w.mobj[sl.slidemo]))

\* P_SlideMove: trace along the three leading corners
SlideLead(c, mom, radius) == IF mom > 0 THEN c + radius ELSE c - radius
SlideTrail(c, mom, radius) == IF mom > 0 THEN c - radius ELSE c + radius

SlideTraces(w, sl, m) ==
    P_PathTraverse(w,
        P_PathTraverse(w,
            P_PathTraverse(w, [sl EXCEPT !.bestslidefrac = FRACUNIT + 1],
                SlideLead(m.x, m.momx, m.radius), SlideLead(m.y, m.momy, m.radius),
                SlideLead(m.x, m.momx, m.radius) + m.momx,
                SlideLead(m.y, m.momy, m.radius) + m.momy),
            SlideTrail(m.x, m.momx, m.radius), SlideLead(m.y, m.momy, m.radius),
            SlideTrail(m.x, m.momx, m.radius) + m.momx,
            SlideLead(m.y, m.momy, m.radius) + m.momy),
        SlideLead(m.x, m.momx, m.radius), SlideTrail(m.y, m.momy, m.radius),
        SlideLead(m.x, m.momx, m.radius) + m.momx,
        SlideTrail(m.y, m.momy, m.radius) + m.momy)

----------------------------------------------------------------------------
(* States at rest, shared by the specifications *)

\* the scratch state before any validation (P_MapEnd: tmthing = NULL)
TmRest ==
    [tmthing |-> NULL, tmx |-> 0, tmy |-> 0, tmz |-> 0,
     tmbbox |-> Box(0, 0, 0, 0),
     tmfloorz |-> 0, tmceilingz |-> 0, tmdropoffz |-> 0,
     ceilingline |-> NULL, blockline |-> NULL, floorline |-> NULL,
     tmunstuck |-> FALSE, spechit |-> <<>>, numspechit |-> 0,
     spechit_max |-> 0, telefrag |-> FALSE, onmobj |-> NULL,
     felldown |-> FALSE, floatok |-> FALSE]

SectorRest ==
    [floorheight |-> 0, ceilingheight |-> U(128), special |-> {},
     friction |-> ORIG_FRICTION, movefactor |-> ORIG_FRICTION_FACTOR,
     heightsec |-> NULL, terraintype |-> "SOLID"]

EnvRest ==
    [freeze |-> FALSE, infiniteheight |-> FALSE, leveltime |-> 0,
     telefragonmap30 |-> FALSE, gamemap |-> 1,
     r_corpses_nudge |-> TRUE, r_liquid_bob |-> TRUE,
     infight |-> FALSE, species_infighting |-> FALSE]

SlideRest == [pc |-> "idle"]

ObsRest == [op |-> "none", n |-> 0]

----------------------------------------------------------------------------
(* SpecSec: the membership operations on their own.  Things are spawned,   *)
(* relinked at a position (the commit of a move) and removed.              *)

\* positions a thing may be put at: inside one sector, across one line,
\* across two lines
SecXs == {U(24), U(40), U(64), U(88)}

InitSec ==
    /\ mobj = [t \in Things |->
                 [NoMobj EXCEPT !.flags = {"MF_SOLID", "MF_SHOOTABLE"},
                                !.radius = IF t = 1 THEN U(20) ELSE U(16),
                                !.pickupradius = IF t = 1 THEN U(20) ELSE U(16),
                                !.health = 100]]
    /\ sectors = [s \in Sectors |-> SectorRest]
    /\ heap = EmptyHeap
    /\ blocklinks = <<>>
    /\ tm = TmRest
    /\ env = EnvRest
    /\ slide = SlideRest
    /\ obs = ObsRest

Commit(w) ==
    /\ mobj' = w.mobj
    /\ heap' = w.heap
    /\ blocklinks' = w.blocklinks
    /\ tm' = w.tm

\* P_SpawnMobj's link of a new thing: P_SetThingPosition with no parked thread
SecSpawn(t, x) ==
    /\ obs.n < MaxOps
    /\ ~mobj[t].linked
    /\ Commit(P_SetThingPosition(
                  [World EXCEPT !.mobj[t].x = x, !.mobj[t].linked = TRUE], t))
    /\ obs' = [op |-> "spawn", n |-> obs.n + 1, thing |-> t, samepos |-> FALSE,
               before |-> {}, held |-> {}]
    /\ UNCHANGED <<sectors, env, slide>>

\* the commit of a move: P_UnsetThingPosition, new x, P_SetThingPosition
SecRelink(t, x) ==
    /\ obs.n < MaxOps
    /\ mobj[t].linked
    /\ Commit(P_SetThingPosition(
                  [P_UnsetThingPosition(World, t) EXCEPT !.mobj[t].x = x], t))
    /\ obs' = [op |-> "relink", n |-> obs.n + 1, thing |-> t, samepos |-> (x = mobj[t].x),
               before |-> MemberSectors(t), held |-> Held(t)]
    /\ UNCHANGED <<sectors, env, slide>>

\* P_RemoveMobj: unlink and P_DelSeclist
SecRemove(t) ==
    /\ obs.n < MaxOps
    /\ mobj[t].linked
    /\ Commit(P_RemoveMobj(World, t))
    /\ obs' = [op |-> "remove", n |-> obs.n + 1, thing |-> t, samepos |-> FALSE,
               before |-> MemberSectors(t), held |-> Held(t)]
    /\ UNCHANGED <<sectors, env, slide>>

NextSec ==
    \/ \E t \in Things, x \in SecXs : SecSpawn(t, x)
    \/ \E t \in Things, x \in SecXs : SecRelink(t, x)
    \/ \E t \in Things : SecRemove(t)

SpecSec == InitSec /\ [][NextSec]_vars

----------------------------------------------------------------------------
(* Claims about the membership threads (SpecSec) *)

\* the (thing, sector) pairs read off the sectors' touching-thing threads
SectorSidePairs ==
    UNION {{<<heap.node[n].m_thing, s>> : n \in Range(SectorThread(s))} :
           s \in Sectors}

\* the (thing, sector) pairs read off the things' sector threads
ThingSidePairs ==
    UNION {{<<t, heap.node[n].m_sector>> : n \in Range(ThingThread(t))} :
           t \in Things}

\* q is a thing thread whose m_tprev/m_tnext links agree pairwise
TLinksAgree(q) ==
    /\ Len(q) = Cardinality(Range(q))
    /\ \A i \in 1 .. Len(q) :
          /\ heap.node[q[i]].m_tprev = (IF i = 1 THEN NULL ELSE q[i - 1])
          /\ heap.node[q[i]].m_tnext = (IF i = Len(q) THEN NULL ELSE q[i + 1])

\* q is a sector thread whose m_sprev/m_snext links agree pairwise
SLinksAgree(q) ==
    /\ Len(q) = Cardinality(Range(q))
    /\ \A i \in 1 .. Len(q) :
          /\ heap.node[q[i]].m_sprev = (IF i = 1 THEN NULL ELSE q[i - 1])
          /\ heap.node[q[i]].m_snext = (IF i = Len(q) THEN NULL ELSE q[i + 1])

\* C2: after any sequence of membership operations, a node for (E, R) is on
\* R's touching-thing thread iff a node for (E, R) is on E's sector thread,
\* and the prev/next links of every thread agree pairwise.
C2_ThreadsConsistent ==
    /\ SectorSidePairs = ThingSidePairs
    /\ \A t \in Things : TLinksAgree(ThingThread(t))
    /\ \A s \in Sectors : SLinksAgree(SectorThread(s))

\* two things share a sector thread after a relink that vacated a sector,
\* so a node has been unlinked and freed next to a node that stays
C2_Witness ==
    /\ obs.op = "relink"
    /\ obs.before \ MemberSectors(obs.thing) # {}
    /\ \E s \in Sectors : Len(SectorThread(s)) = 2
    /\ FreeList # <<>>

\* C3: rebuilding the membership of a thing at the position it already has
\* leaves it a member of the same set of sectors.
C3_RebuildIdempotent ==
    (obs.op = "relink" /\ obs.samepos) =>
        MemberSectors(obs.thing) = obs.before

\* a thing across two lines (three sectors) has been rebuilt in place
C3_Witness ==
    /\ obs.op = "relink"
    /\ obs.samepos
    /\ Cardinality(MemberSectors(obs.thing)) = 3

\* line ld passes through the inside of the box of half-width r around
\* (x, y) (the lines of the corridor are vertical)
CrossesBox(ld, x, y, r) ==
    /\ x - r < ld.v1x
    /\ ld.v1x < x + r
    /\ y - r < ld.bbox[BOXTOP]
    /\ ld.bbox[BOXBOTTOM] < y + r

\* the sectors on either side of the lines that cross the thing's box,
\* and the sector under its origin
SectorsAt(m) ==
    {R_PointInSubsector(m.x, m.y)}
        \cup UNION {{lines[l].frontsector, lines[l].backsector} \ {NULL} :
                    l \in {k \in Lines : CrossesBox(lines[k], m.x, m.y,
                                                     m.pickupradius)}}

\* C17: after P_CreateSecNodeList (at a spawn or a relink) the thing's thread
\* has exactly one node for each sector that is on a side of a line crossing
\* the thing's box or is under its origin, and none for any other sector;
\* the node of a sector the thread already had is the node it had.
C17_ExactMembership ==
    obs.op \in {"spawn", "relink"}
        => /\ MemberSectors(obs.thing) = SectorsAt(mobj[obs.thing])
           /\ Len(ThingThread(obs.thing)) = Cardinality(SectorsAt(mobj[obs.thing]))
           /\ \A p \in obs.held :
                 p[1] \in SectorsAt(mobj[obs.thing]) => p \in Held(obs.thing)

\* a relink kept a sector, vacated a sector and entered a sector
C17_Witness ==
    /\ obs.op = "relink"
    /\ obs.before \cap MemberSectors(obs.thing) # {}
    /\ obs.before \ MemberSectors(obs.thing) # {}
    /\ MemberSectors(obs.thing) \ obs.before # {}

----------------------------------------------------------------------------
(* SpecMove: things of several kinds stand in the corridor, whose middle   *)
(* and far sectors have floors and ceilings of several heights; they are   *)
(* moved with P_TryMove and settle on their floor between moves.           *)

\* the number of P_TryMove calls a behaviour makes
MaxMoves == 1

\* where a move may aim: inside the near sector, across the first line,
\* inside the middle sector, across the far lines, against the far wall
MoveXs == {U(24), U(40), U(64), U(88), U(112)}

\* the corridors: the middle sector's floor, the far sector's floor and the
\* middle sector's ceiling (a level step, a step of exactly 24, one of 24
\* and the smallest increment, a pit behind the step, low ceilings)
Corridors ==
    {<<0, 0, U(128)>>, <<MAXSTEP, 0, U(128)>>, <<MAXSTEP + 1, 0, U(128)>>,
     <<MAXSTEP, -U(40), U(128)>>, <<MAXSTEP, 0, U(72)>>, <<0, 0, U(72)>>}

MoverKinds ==
    {"player", "voodoo", "monster", "faller", "teleporter", "ghost", "floater"}

OtherKinds == {"monster", "pickup", "corpse"}

\* mobjinfo and spawn flags of the kinds of thing the model places
KindFlags(kind) ==
    CASE kind = "player" -> {"MF_SOLID", "MF_SHOOTABLE", "MF_DROPOFF", "MF_PICKUP"}
      [] kind = "voodoo" -> {"MF_SOLID", "MF_SHOOTABLE", "MF_DROPOFF", "MF_PICKUP"}
      [] kind = "monster" -> {"MF_SOLID", "MF_SHOOTABLE"}
      [] kind = "brute" -> {"MF_SOLID", "MF_SHOOTABLE"}
      [] kind = "cyborg" -> {"MF_SOLID", "MF_SHOOTABLE"}
      [] kind = "rocket" -> {"MF_NOBLOCKMAP", "MF_MISSILE", "MF_DROPOFF", "MF_NOGRAVITY"}
      [] kind = "skull" -> {"MF_SOLID", "MF_SHOOTABLE", "MF_FLOAT", "MF_NOGRAVITY",
                            "MF_SKULLFLY"}
      [] kind = "faller" -> {"MF_SOLID", "MF_SHOOTABLE"}
      [] kind = "teleporter" -> {"MF_SOLID", "MF_SHOOTABLE", "MF_TELEPORT"}
      [] kind = "ghost" -> {"MF_SOLID", "MF_SHOOTABLE", "MF_NOCLIP"}
      [] kind = "floater" -> {"MF_SOLID", "MF_SHOOTABLE", "MF_FLOAT", "MF_NOGRAVITY"}
      [] kind = "pickup" -> {"MF_SPECIAL"}
      [] kind = "dropped" -> {"MF_SPECIAL", "MF_DROPPED"}
      [] kind = "corpse" -> {"MF_CORPSE", "MF_DROPOFF"}
      [] kind = "blood" -> {"MF_NOBLOCKMAP"}

KindRadius(kind) ==
    CASE kind \in {"monster", "pickup", "dropped", "blood"} -> U(20)
      [] kind = "brute" -> U(22)
      [] kind = "cyborg" -> U(40)
      [] kind = "rocket" -> U(11)
      [] OTHER -> U(16)

KindMobj(kind) ==
    [NoMobj EXCEPT
       !.flags = KindFlags(kind),
       !.flags2 = IF kind = "faller" THEN {"MF2_FALLING"}
                  ELSE IF kind \in {"player", "voodoo"} THEN {"MF2_PASSMOBJ"}
                  ELSE {},
       !.player = IF kind = "player" THEN "real"
                  ELSE IF kind = "voodoo" THEN "voodoo" ELSE "none",
       !.type = CASE kind \in {"player", "voodoo"} -> "MT_PLAYER"
                  [] kind \in {"pickup", "dropped"} -> "MT_MISC"
                  [] kind = "blood" -> "MT_BLOOD"
                  [] kind = "cyborg" -> "MT_CYBORG"
                  [] kind = "rocket" -> "MT_ROCKET"
                  [] OTHER -> "MT_POSSESSED",
       !.radius = KindRadius(kind),
       !.pickupradius = KindRadius(kind),
       !.damage = CASE kind = "rocket" -> 20
                    [] kind = "skull" -> 3
                    [] OTHER -> 0,
       !.height = CASE kind \in {"pickup", "dropped"} -> U(16)
                    [] kind = "cyborg" -> U(110)
                    [] kind = "rocket" -> U(8)
                    [] OTHER -> U(56),
       !.health = IF kind \in {"pickup", "dropped", "corpse"} THEN 0 ELSE 100]

\* P_SpawnMobj: the thing stands on the floor of the sector its origin is
\* in (a floater hovers above it) and is linked into the map
SpawnedMobj(m, x, sec, lift) ==
    [m EXCEPT !.x = x, !.z = sec.floorheight + lift,
              !.floorz = sec.floorheight, !.dropoffz = sec.floorheight,
              !.ceilingz = sec.ceilingheight, !.linked = TRUE]

P_SpawnMobj(w, t, kind, x) ==
    P_SetThingPosition(
        [w EXCEPT !.mobj[t] =
            SpawnedMobj(KindMobj(kind), x, w.sectors[R_PointInSubsector(x, 0)],
                        IF kind = "floater" THEN MAXSTEP ELSE 0)],
        t)

\* where the things of a scenario start: the first in the near sector, clear
\* of the first line or across it, the others further along the corridor
FirstXs == {U(24), U(40)}
StartXs == <<U(112), U(88)>>
StartX(t) == StartXs[(t % Len(StartXs)) + 1]

RECURSIVE SpawnAll(_, _, _, _, _)
SpawnAll(w, t, k1, ko, x1) ==
    IF t > NThings THEN w
    ELSE SpawnAll(P_SpawnMobj(w, t, IF t = 1 THEN k1 ELSE ko,
                              IF t = 1 THEN x1 ELSE StartX(t)),
                  t + 1, k1, ko, x1)

EmptyWorld(sec) ==
    [mobj |-> [t \in Things |-> NoMobj], sectors |-> sec, heap |-> EmptyHeap,
     blocklinks |-> <<>>, tm |-> TmRest, dmg |-> <<>>, crossed |-> <<>>,
     scanned |-> <<>>]

CorridorSectors(c) ==
    [s \in Sectors |->
       [SectorRest EXCEPT
          !.floorheight = IF s = 2 THEN c[1] ELSE IF s = 3 THEN c[2] ELSE 0,
          !.ceilingheight = IF s = 2 THEN c[3] ELSE U(128)]]

InitWorld(w) ==
    /\ mobj = w.mobj
    /\ sectors = w.sectors
    /\ heap = w.heap
    /\ blocklinks = w.blocklinks
    /\ tm = w.tm

InitMove ==
    /\ \E c \in Corridors, k1 \in MoverKinds, ko \in OtherKinds, x1 \in FirstXs :
          InitWorld(SpawnAll(EmptyWorld(CorridorSectors(c)), 1, k1, ko, x1))
    /\ env \in {EnvRest, [EnvRest EXCEPT !.freeze = mobj[1].player = "none"]}
    /\ slide = SlideRest
    /\ obs = ObsRest

\* the call's record: arguments, the thing as it was before the call, the
\* return value and return statement, and the special lines triggered
MoveDone(r, t, x, dropoff, pre) ==
    /\ Commit(r.w)
    /\ obs' = [op |-> "P_TryMove", n |-> obs.n + 1, thing |-> t, x |-> x,
               dropoff |-> dropoff, pre |-> pre, heap |-> heap,
               ok |-> r.ok, at |-> r.at, crossed |-> r.w.crossed]

\* P_TryMove(t, x, y, dropoff) along the corridor
MoveTry(t, x, dropoff, rnd) ==
    /\ obs.n < MaxMoves
    /\ mobj[t].linked
    /\ MoveDone(P_TryMove(World, t, x, mobj[t].y, dropoff, rnd),
                t, x, dropoff, mobj[t])
    /\ UNCHANGED <<sectors, env, slide>>

\* P_ZMovement between moves: the thing comes to rest on its floor
MoveLand(t) ==
    /\ mobj[t].linked
    /\ "MF_NOGRAVITY" \notin mobj[t].flags
    /\ mobj[t].z # mobj[t].floorz
    /\ mobj' = [mobj EXCEPT ![t].z = mobj[t].floorz]
    /\ obs' = [op |-> "P_ZMovement", n |-> obs.n, thing |-> t]
    /\ UNCHANGED <<sectors, heap, blocklinks, tm, env, slide>>

NextMove ==
    \/ \E t \in Things, x \in MoveXs, dropoff \in BOOLEAN, rnd \in Draws :
          MoveTry(t, x, dropoff, rnd)
    \/ \E t \in Things : MoveLand(t)

SpecMove == InitMove /\ [][NextMove]_vars

----------------------------------------------------------------------------
(* Claims about the mover (SpecMove) *)

\* the thing the last call was about, as the call left it
Mover == mobj[obs.thing]

\* the last call was P_TryMove on a clipped thing that is not teleporting
ClippedMove ==
    /\ obs.op = "P_TryMove"
    /\ ~env.freeze
    /\ Mover.flags \cap {"MF_NOCLIP", "MF_TELEPORT"} = {}

\* C1 as stated: after every successful P_TryMove the thing's floorz is at
\* or below its z and its z + height is at or below its ceilingz.
C1_AsStated ==
    (obs.op = "P_TryMove" /\ obs.ok)
        => /\ Mover.floorz <= Mover.z
           /\ Mover.z + Mover.height <= Mover.ceilingz

\* C1, amended: after a P_TryMove that links a clipped, non-teleporting
\* thing into the new position, the thing's top is at or below the committed
\* ceilingz, the committed opening is at least the thing's height, and the
\* committed floorz is at most 24 units above the thing's z (the thing may
\* stand below its floorz by a step).
C1_CommittedFits ==
    (ClippedMove /\ obs.at = "linked")
        => /\ Mover.z + Mover.height <= Mover.ceilingz
           /\ Mover.ceilingz - Mover.floorz >= Mover.height
           /\ Mover.floorz - Mover.z <= MAXSTEP
           /\ Mover.floorz = tm.tmfloorz
           /\ Mover.ceilingz = tm.tmceilingz

\* a move that stepped up by exactly 24 units was committed
C1_Witness ==
    /\ ClippedMove
    /\ obs.at = "linked"
    /\ Mover.x # obs.pre.x
    /\ Mover.floorz - Mover.z = MAXSTEP

\* the validator passed and the destination has the clearance: the opening
\* and the room above the thing's z are at least its height
C4_Case ==
    /\ ClippedMove
    /\ obs.at # "validator"
    /\ tm.tmceilingz - tm.tmfloorz >= obs.pre.height
    /\ tm.tmceilingz - obs.pre.z >= obs.pre.height

\* C4 as stated: in that case P_TryMove succeeds when the destination floor is
\* exactly 24 units above the thing's z and fails when it is 24 units and
\* the smallest increment above.
C4_AsStated ==
    C4_Case
        => /\ (tm.tmfloorz - obs.pre.z = MAXSTEP) => obs.ok
           /\ (tm.tmfloorz - obs.pre.z = MAXSTEP + 1) => ~obs.ok

\* the dropoff rule rejects the move
DropoffRejects ==
    /\ obs.pre.flags \cap {"MF_DROPOFF", "MF_FLOAT"} = {}
    /\ ~obs.dropoff
    /\ \/ obs.pre.floorz - tm.tmfloorz > MAXSTEP
       \/ obs.pre.dropoffz - tm.tmdropoffz > MAXSTEP

\* the rule for falling objects rejects the move
FallingRejects ==
    /\ "MF2_FALLING" \in obs.pre.flags2
    /\ tm.tmfloorz - obs.pre.z
         > FixedMul(obs.pre.momx, obs.pre.momx) + FixedMul(obs.pre.momy, obs.pre.momy)

\* C4, amended: in that case a step of exactly 24 units is not too big: the
\* move is committed unless the dropoff rule or the falling-object rule
\* rejects it; a step of 24 units and the smallest increment is never
\* committed, and the call returns false except for a real player (not a
\* voodoo doll), whose unstuck escape may return true with the thing left
\* where it was.
C4_StepBoundary ==
    C4_Case
        => /\ (tm.tmfloorz - obs.pre.z = MAXSTEP)
                 => IF DropoffRejects \/ FallingRejects
                    THEN ~obs.ok /\ obs.at \in {"dropoff", "falling"}
                    ELSE obs.ok /\ obs.at = "linked"
           /\ (tm.tmfloorz - obs.pre.z = MAXSTEP + 1)
                 => /\ obs.at = "step"
                    /\ Mover.x = obs.pre.x
                    /\ Mover.floorz = obs.pre.floorz
                    /\ obs.ok => obs.pre.player = "real"

\* a step of exactly 24 units was committed
C4_Witness ==
    /\ C4_Case
    /\ tm.tmfloorz - obs.pre.z = MAXSTEP
    /\ obs.ok
    /\ obs.at = "linked"

\* further cases of C4 that the model reaches
C4_RejectedAbove ==
    C4_Case /\ tm.tmfloorz - obs.pre.z = MAXSTEP + 1 /\ ~obs.ok

C4_EscapeAbove ==
    C4_Case /\ tm.tmfloorz - obs.pre.z = MAXSTEP + 1 /\ obs.ok

C4_DropoffAtStep ==
    C4_Case /\ tm.tmfloorz - obs.pre.z = MAXSTEP /\ obs.at = "dropoff"

C4_FallingAtStep ==
    C4_Case /\ tm.tmfloorz - obs.pre.z = MAXSTEP /\ obs.at = "falling"

\* the thing is where the call was asked to put it, with the trial heights
AtTarget ==
    /\ Mover.x = obs.x
    /\ Mover.y = obs.pre.y
    /\ Mover.floorz = tm.tmfloorz
    /\ Mover.ceilingz = tm.tmceilingz
    /\ Mover.dropoffz = tm.tmdropoffz

\* the thing is where it was before the call, with the heights it had
AtOrigin ==
    /\ Mover.x = obs.pre.x
    /\ Mover.y = obs.pre.y
    /\ Mover.floorz = obs.pre.floorz
    /\ Mover.ceilingz = obs.pre.ceilingz
    /\ Mover.dropoffz = obs.pre.dropoffz

\* C11 as stated: whenever P_TryMove returns true the thing's x and y are the
\* requested ones and its floorz, ceilingz and dropoffz are the trial values;
\* no true return leaves the thing at its old position.
C11_AsStated ==
    (obs.op = "P_TryMove" /\ obs.ok)
        => /\ AtTarget
           /\ obs.x # obs.pre.x => Mover.x # obs.pre.x

\* C11, amended: whenever P_TryMove returns true after linking the thing into
\* its new position, the thing's x and y are the requested ones and its
\* floorz, ceilingz and dropoffz are the trial values; the only other true
\* return is the unstuck escape of a real player whose move does not fit or
\* steps up too far, and it leaves the thing at its old position with its
\* old heights.
C11_SuccessCommits ==
    (obs.op = "P_TryMove" /\ obs.ok)
        => IF obs.at = "linked" THEN AtTarget
           ELSE /\ obs.at \in {"fit", "step"}
                /\ obs.pre.player = "real"
                /\ AtOrigin

\* a move to another place, with other heights, was committed
C11_Witness ==
    /\ obs.op = "P_TryMove"
    /\ obs.ok
    /\ obs.at = "linked"
    /\ Mover.x # obs.pre.x
    /\ Mover.floorz # obs.pre.floorz
    /\ Mover.dropoffz # obs.pre.dropoffz

\* the unstuck escape returned true for a move to another place
C11_Escape ==
    /\ obs.op = "P_TryMove"
    /\ obs.ok
    /\ obs.at # "linked"
    /\ obs.x # obs.pre.x

\* the side of line l the thing was on before the call, and is on after it
OldSide(l) == P_PointOnLineSide(obs.pre.x, obs.pre.y, lines[l])
NewSide(l) == P_PointOnLineSide(Mover.x, Mover.y, lines[l])

\* the special lines the trial of the last call put in the list
Touched == Range(tm.spechit)

\* C13: P_TryMove triggers a special line's cross effect only when it links
\* the thing into the new position, only for a special line of the trial
\* list that has the old and the new position on different sides, with the
\* old side as argument, and at most once per call.
C13_CrossOnlyStraddled ==
    obs.op = "P_TryMove"
        => /\ obs.crossed # <<>> => (obs.ok /\ obs.at = "linked")
           /\ \A i \in 1 .. Len(obs.crossed) :
                 /\ lines[obs.crossed[i].line].special # 0
                 /\ obs.crossed[i].line \in Touched
                 /\ obs.crossed[i].thing = obs.thing
                 /\ obs.crossed[i].side = OldSide(obs.crossed[i].line)
                 /\ OldSide(obs.crossed[i].line) # NewSide(obs.crossed[i].line)
                 /\ \A j \in 1 .. Len(obs.crossed) :
                       obs.crossed[j].line = obs.crossed[i].line => j = i

\* a move with two special lines in the list triggered the one it crossed
\* and not the one it only touched
C13_Witness ==
    /\ obs.op = "P_TryMove"
    /\ obs.at = "linked"
    /\ Cardinality(Touched) = 2
    /\ Len(obs.crossed) = 1

\* a rejected move had a special line in its list
C13_RejectedTouch ==
    /\ obs.op = "P_TryMove"
    /\ ~obs.ok
    /\ tm.numspechit > 0
    /\ \E l \in Touched : OldSide(l) # P_PointOnLineSide(obs.x, obs.pre.y, lines[l])

\* the membership nodes of the thing of the last call, before the call
PreThread == TThread(obs.heap.node, obs.pre.touching_sectorlist, MaxNodes + 1)

\* the thing's thread has the nodes it had, for the sectors it had
SameMembership ==
    /\ Mover.touching_sectorlist = obs.pre.touching_sectorlist
    /\ ThingThread(obs.thing) = PreThread
    /\ \A n \in Range(PreThread) :
          /\ heap.node[n].m_sector = obs.heap.node[n].m_sector
          /\ heap.node[n].m_thing = obs.thing
          /\ heap.node[n].m_tnext = obs.heap.node[n].m_tnext
          /\ heap.node[n].m_tprev = obs.heap.node[n].m_tprev
          /\ n \in Range(SectorThread(heap.node[n].m_sector))
          /\ n \notin Range(FreeList)

\* C12: a P_TryMove call that returns false leaves the mover's x and y, its
\* floorz, ceilingz and dropoffz, its membership nodes and its place in the
\* blockmap as they were before the call.
C12_FailedMoveFrame ==
    (obs.op = "P_TryMove" /\ ~obs.ok)
        => /\ AtOrigin
           /\ Mover.subsector = obs.pre.subsector
           /\ SameMembership
           /\ obs.thing \in Range(blocklinks)

\* the dropoff rule refused, after the validator passed, a move of a thing
\* that is in two sectors
C12_Witness ==
    /\ obs.op = "P_TryMove"
    /\ ~obs.ok
    /\ obs.at = "dropoff"
    /\ obs.x # obs.pre.x
    /\ Len(ThingThread(obs.thing)) = 2

\* the validator refused a move on whose way a pickup was taken
C12_PickupTaken ==
    /\ obs.op = "P_TryMove"
    /\ ~obs.ok
    /\ \E u \in Things : ~mobj[u].linked

----------------------------------------------------------------------------
(* SpecFric: sectors of several frictions; a thing is put down, moved once *)
(* (which orders its sector thread one way or another) and its friction is *)
(* looked up.                                                              *)

\* friction values P_SpawnFriction computes for friction linedefs of
\* length 50 (muddy), 100 (the original friction) and 150 (icy)
MUDDY_FRICTION == 56320
ICY_FRICTION == 62464

FrictionKinds == {"plain", "muddy", "neutral", "icy"}

FrictionSector(kind) ==
    [SectorRest EXCEPT
       !.special = IF kind = "plain" THEN {} ELSE {"FRICTION"},
       !.friction = CASE kind = "muddy" -> MUDDY_FRICTION
                      [] kind = "icy" -> ICY_FRICTION
                      [] OTHER -> ORIG_FRICTION,
       !.movefactor = CASE kind = "muddy" -> 1024
                        [] kind = "icy" -> 1536
                        [] OTHER -> ORIG_FRICTION_FACTOR]

InitFric ==
    /\ \E k \in [Sectors -> FrictionKinds], x1 \in MoveXs \ {U(112)} :
          InitWorld(SpawnAll(EmptyWorld([s \in Sectors |-> FrictionSector(k[s])]),
                             1, "monster", "corpse", x1))
    /\ env = EnvRest
    /\ slide = SlideRest
    /\ obs = ObsRest

\* P_GetFriction(t, &movefactor)
FricDone(f, t) ==
    obs' = [op |-> "P_GetFriction", n |-> obs.n, thing |-> t,
            friction |-> f.friction, movefactor |-> f.movefactor]

FricGet(t) ==
    /\ mobj[t].linked
    /\ obs.op # "P_GetFriction"
    /\ FricDone(P_GetFriction(World, mobj[t]), t)
    /\ UNCHANGED <<mobj, sectors, heap, blocklinks, tm, env, slide>>

NextFric ==
    \/ \E t \in Things, x \in MoveXs, rnd \in Draws : MoveTry(t, x, TRUE, rnd)
    \/ \E t \in Things : FricGet(t)

SpecFric == InitFric /\ [][NextFric]_vars

----------------------------------------------------------------------------
(* Claims about friction (SpecFric) *)

\* the member sectors of thing t that carry a friction special and whose
\* floor is at or above the thing's z
FrictionSectors(t) ==
    {s \in MemberSectors(t) :
        /\ "FRICTION" \in sectors[s].special
        /\ mobj[t].z <= sectors[s].floorheight}

LowestFriction(S) ==
    CHOOSE f \in {sectors[s].friction : s \in S} :
        \A s \in S : f <= sectors[s].friction

\* C10: for a clipped thing under gravity that touches at least one such
\* sector, P_GetFriction returns the lowest friction value among them,
\* whatever the order of the sectors in the thing's thread.
C10_LowestFriction ==
    (/\ obs.op = "P_GetFriction"
     /\ mobj[obs.thing].flags \cap {"MF_NOCLIP", "MF_NOGRAVITY"} = {}
     /\ FrictionSectors(obs.thing) # {})
        => obs.friction = LowestFriction(FrictionSectors(obs.thing))

\* the part of C10 that holds: with a muddy sector among them the result is
\* never an icy or the original value
C10_MuddyBeatsIcy ==
    (/\ obs.op = "P_GetFriction"
     /\ mobj[obs.thing].flags \cap {"MF_NOCLIP", "MF_NOGRAVITY"} = {}
     /\ \E s \in FrictionSectors(obs.thing) : sectors[s].friction < ORIG_FRICTION)
        => obs.friction = LowestFriction(FrictionSectors(obs.thing))

----------------------------------------------------------------------------
(* SpecSlide: P_SlideMove, one step of the function at a time.  slide.pc   *)
(* is the position in the function, slide.entries counts the entries into  *)
(* the body of its do-while loop during the present call.                  *)

MaxSlides == 2

\* the redirect loop's counter on entry to the body: if (!--hitcount)
SlideDecrement_None(sl) == [sl EXCEPT !.entries = @ + 1]

SlideDecrement(sl) == [sl EXCEPT !.hitcount = @ - 1, !.entries = @ + 1]

\* if (bestslidefrac == FRACUNIT + 1): the move must have hit the middle
SlideTraced(sl) ==
    [sl EXCEPT !.pc = IF sl.bestslidefrac = FRACUNIT + 1
                      THEN "stairstep" ELSE "advance"]

SlideEntered(w, sl) ==
    IF sl.hitcount = 0 THEN [sl EXCEPT !.pc = "stairstep"]
    ELSE SlideTraced(SlideTraces(w, sl, w.mobj[sl.slidemo]))

Sliding(w, sl) == [w |-> w, sl |-> sl]

\* mo->momx = tmxmove; mo->momy = tmymove
SlideMomentum(w, sl) ==
    Sliding([w EXCEPT !.mobj[sl.slidemo].momx = sl.tmxmove,
                      !.mobj[sl.slidemo].momy = sl.tmymove],
            [sl EXCEPT !.pc = "retry"])

\* the remainder of the move, clipped along the wall
SlideRedirect(w, sl, m, rest) ==
    SlideMomentum(w,
        P_HitSlideLine(w, [sl EXCEPT !.bestslidefrac = rest,
                                     !.tmxmove = FixedMul(m.momx, rest),
                                     !.tmymove = FixedMul(m.momy, rest)],
                       sl.bestslideline))

\* now continue along the wall: first calculate the remainder
SlideRemainder(w, sl, rest) ==
    IF rest > FRACUNIT THEN SlideRedirect(w, sl, w.mobj[sl.slidemo], FRACUNIT)
    ELSE IF rest <= 0
    THEN Sliding(w, [sl EXCEPT !.bestslidefrac = rest, !.pc = "done"])
    ELSE SlideRedirect(w, sl, w.mobj[sl.slidemo], rest)

SlideApproached(r, sl, frac) ==
    IF r.ok THEN SlideRemainder(r.w, sl, FRACUNIT - (frac + SLIDEFUDGE))
    ELSE Sliding(r.w, [sl EXCEPT !.bestslidefrac = frac, !.pc = "stairstep"])

\* fudge a bit to make sure it doesn't hit, and move up to the wall
SlideApproach(w, sl, m, frac, rnd) ==
    SlideApproached(
        IF frac > 0
        THEN P_TryMove(w, sl.slidemo, m.x + FixedMul(m.momx, frac),
                       m.y + FixedMul(m.momy, frac), TRUE, rnd)
        ELSE Moved(w, TRUE, "none"),
        sl, frac)

\* stairstep: whatever can be moved along one axis
StairstepOther(r, t, m, rnd) ==
    IF r.ok THEN r.w
    ELSE P_TryMove(r.w, t, r.w.mobj[t].x + m.momx, r.w.mobj[t].y, TRUE, rnd).w

Stairstep(w, t, m, rnd, rnd2) ==
    StairstepOther(P_TryMove(w, t, m.x, m.y + m.momy, TRUE, rnd), t, m, rnd2)

\* the scenarios: the far sector is plain or icy, the floor of the middle
\* sector level with it or a step too high, and the slider stands between
\* the middle sector and the far wall with some momentum
SlideStarts == {<<"player", U(104)>>, <<"player", U(96)>>, <<"brute", U(104)>>}
SlideMoms == {<<U(30), 0>>, <<-U(30), 0>>, <<U(30), U(4)>>, <<-U(8), 0>>,
              <<0, U(4)>>, <<U(8), -U(4)>>}

SlideSectors(floor2, kind3) ==
    [s \in Sectors |->
       IF s = 3 THEN FrictionSector(kind3)
       ELSE [SectorRest EXCEPT !.floorheight = IF s = 2 THEN floor2 ELSE 0]]

WithMomentum(w, t, mom) ==
    [w EXCEPT !.mobj[t].momx = mom[1], !.mobj[t].momy = mom[2]]

InitSlide ==
    /\ \E floor2 \in {0, MAXSTEP + 1}, kind3 \in {"plain", "icy"},
          st \in SlideStarts, mom \in SlideMoms :
          InitWorld(WithMomentum(
              SpawnAll(EmptyWorld(SlideSectors(floor2, kind3)), 1,
                       st[1], "corpse", st[2]),
              1, mom))
    /\ env = EnvRest
    /\ slide = [pc |-> "idle", slidemo |-> NULL, hitcount |-> 0, entries |-> 0,
                bestslidefrac |-> 0, bestslideline |-> NULL,
                tmxmove |-> 0, tmymove |-> 0]
    /\ obs = ObsRest

\* P_SlideMove(mo) is called: hitcount = 3; slidemo = mo
SlideCall(t) ==
    /\ slide.pc = "idle"
    /\ obs.n < MaxSlides
    /\ mobj[t].linked
    /\ mobj[t].momx # 0 \/ mobj[t].momy # 0
    /\ slide' = [slide EXCEPT !.pc = "loop", !.slidemo = t,
                              !.hitcount = MAXHITCOUNT, !.entries = 0]
    /\ obs' = [op |-> "P_SlideMove", n |-> obs.n + 1, thing |-> t,
               pre |-> mobj[t]]
    /\ UNCHANGED <<mobj, sectors, heap, blocklinks, tm, env>>

\* do { if (!--hitcount) goto stairstep; ... trace along the three corners
SlideEnter ==
    /\ slide.pc = "loop"
    /\ slide' = SlideEntered(World, SlideDecrement(slide))
    /\ UNCHANGED <<mobj, sectors, heap, blocklinks, tm, env, obs>>

SlideStep(r) ==
    /\ Commit(r.w)
    /\ slide' = r.sl
    /\ UNCHANGED <<sectors, env, obs>>

\* the move up to the wall and the redirection of what is left of it
SlideAdvance(rnd) ==
    /\ slide.pc = "advance"
    /\ SlideStep(SlideApproach(World, slide, mobj[slide.slidemo],
                               slide.bestslidefrac - SLIDEFUDGE, rnd))

\* } while (!P_TryMove(mo, mo->x + tmxmove, mo->y + tmymove, true))
SlideRetried(r, sl) ==
    Sliding(r.w, [sl EXCEPT !.pc = IF r.ok THEN "done" ELSE "loop"])

SlideRetry(rnd) ==
    /\ slide.pc = "retry"
    /\ SlideStep(SlideRetried(
           P_TryMove(World, slide.slidemo, mobj[slide.slidemo].x + slide.tmxmove,
                     mobj[slide.slidemo].y + slide.tmymove, TRUE, rnd),
           slide))

SlideStairstep(rnd, rnd2) ==
    /\ slide.pc = "stairstep"
    /\ SlideStep(Sliding(Stairstep(World, slide.slidemo, mobj[slide.slidemo],
                                   rnd, rnd2),
                         [slide EXCEPT !.pc = "done"]))

\* P_SlideMove returns
SlideReturn ==
    /\ slide.pc = "done"
    /\ slide' = [slide EXCEPT !.pc = "idle"]
    /\ UNCHANGED <<mobj, sectors, heap, blocklinks, tm, env, obs>>

SlideRun ==
    \/ SlideEnter
    \/ \E rnd \in Draws : SlideAdvance(rnd)
    \/ \E rnd \in Draws : SlideRetry(rnd)
    \/ \E rnd \in Draws, rnd2 \in Draws : SlideStairstep(rnd, rnd2)
    \/ SlideReturn

NextSlide ==
    \/ \E t \in Things : SlideCall(t)
    \/ SlideRun

SpecSlide == InitSlide /\ [][NextSlide]_vars

----------------------------------------------------------------------------
(* Claims about the slider (SpecSlide) *)

SlideCapped ==
    /\ slide.entries <= MAXHITCOUNT
    /\ slide.entries = MAXHITCOUNT => slide.pc \in {"stairstep", "done", "idle"}

\* what is left of a call: the entries the counter still allows, then the
\* steps of the present pass, then the fallback and the return
SlideMeasure ==
    CASE slide.pc = "loop" -> 3 * slide.hitcount
      [] slide.pc = "advance" -> 3 * slide.hitcount + 2
      [] slide.pc = "retry" -> 3 * slide.hitcount + 1
      [] slide.pc = "stairstep" -> -1
      [] slide.pc = "done" -> -2
      [] slide.pc = "idle" -> -3

\* C5: P_SlideMove always terminates: a call enters the body of its
\* redirect loop at most 3 times, after the last allowed entry it falls back
\* to the stairstep, and every step of a call brings it nearer to its return
\* (a measure bounded below strictly decreases), whether or not the retried
\* moves keep failing.
C5_SlideTerminates ==
    /\ []SlideCapped
    /\ [][slide.pc # "idle" => /\ SlideMeasure' < SlideMeasure
                               /\ SlideMeasure' >= -3]_vars

\* the cap is reached: two redirected moves have failed and the third entry
\* has fallen back to the stairstep
C5_Witness ==
    /\ slide.entries = MAXHITCOUNT
    /\ slide.hitcount = 0
    /\ slide.pc = "done"

----------------------------------------------------------------------------
(* Teleporting: PIT_StompThing and P_TeleportMove *)

\* ABS(thing->x - tmx) >= blockdist || ABS(thing->y - tmy) >= blockdist:
\* didn't hit it
StompMissed(t, m, blockdist) ==
    ABS(m.x - t.tmx) >= blockdist \/ ABS(m.y - t.tmy) >= blockdist

\* the mover passes overhead or underneath
StompPasses_AnyHeight(t, mover, m) ==
    /\ "MF2_PASSMOBJ" \in mover.flags2
    /\ t.tmz > m.z + m.height \/ t.tmz + mover.height < m.z

StompPasses(t, mover, m) ==
    /\ "MF2_PASSMOBJ" \in mover.flags2
    /\ ~env.infiniteheight
    /\ t.tmz > m.z + m.height \/ t.tmz + mover.height < m.z

\* monsters don't stomp things except on boss level
StompHit_Stomps(w, thing) ==
    Ret(P_DamageMobj(w, thing, w.tm.tmthing, w.tm.tmthing, STOMPDAMAGE),
        w.tm.telefrag)

StompHit(w, thing) ==
    IF ~w.tm.telefrag THEN Ret(w, FALSE)
    ELSE IF StompPasses(w.tm, w.mobj[w.tm.tmthing], w.mobj[thing])
    THEN Ret(w, TRUE)
    ELSE Ret(P_DamageMobj(w, thing, w.tm.tmthing, w.tm.tmthing, STOMPDAMAGE),
             TRUE)

PIT_StompThing(w, thing) ==
    IF thing = w.tm.tmthing THEN Ret(w, TRUE)
    ELSE IF "MF_SHOOTABLE" \notin w.mobj[thing].flags THEN Ret(w, TRUE)
    ELSE IF StompMissed(w.tm, w.mobj[thing],
                        w.mobj[thing].radius + w.mobj[w.tm.tmthing].radius)
    THEN Ret(w, TRUE)
    ELSE StompHit(w, thing)

\* P_BlockThingsIterator(bx, by, PIT_StompThing) over the cell's things
RECURSIVE StompThings(_, _, _)
StompThingsNext(r, q, i) ==
    IF r.ok THEN StompThings(r.w, q, i + 1) ELSE r

StompThings(w, q, i) ==
    IF i > Len(q) THEN Ret(w, TRUE)
    ELSE StompThingsNext(PIT_StompThing(w, q[i]), q, i)

\* telefrag = (thing->player || boss || (gamemap == 30 && telefragonmap30))
Telefrags(m, boss) ==
    \/ m.player # "none"
    \/ boss
    \/ env.gamemap = 30 /\ env.telefragonmap30

TeleportStart(t, thing, m, x, y, z, boss, newsec) ==
    [t EXCEPT
       !.telefrag = Telefrags(m, boss),
       !.tmthing = thing, !.tmx = x, !.tmy = y, !.tmz = z,
       !.tmbbox = Box(y + m.radius, y - m.radius, x - m.radius, x + m.radius),
       !.ceilingline = NULL,
       !.tmfloorz = newsec.floorheight,
       !.tmdropoffz = newsec.floorheight,
       !.tmceilingz = newsec.ceilingheight,
       !.numspechit = 0]

\* the move is ok, so link the thing into its new position
TeleportCommit(w, thing, x, y) ==
    ClipFeet(
        P_SetThingPosition(
            [P_UnsetThingPosition(w, thing)
               EXCEPT !.mobj[thing].floorz = w.tm.tmfloorz,
                      !.mobj[thing].ceilingz = w.tm.tmceilingz,
                      !.mobj[thing].dropoffz = w.tm.tmdropoffz,
                      !.mobj[thing].x = x,
                      !.mobj[thing].y = y],
            thing),
        thing)

TeleportStomped(r, thing, x, y) ==
    IF r.ok THEN Ret(TeleportCommit(r.w, thing, x, y), TRUE) ELSE r

P_TeleportMove(w, thing, x, y, z, boss) ==
    TeleportStomped(
        StompThings([w EXCEPT !.tm =
                        TeleportStart(w.tm, thing, w.mobj[thing], x, y, z, boss,
                                      w.sectors[R_PointInSubsector(x, y)])],
                    w.blocklinks, 1),
        thing, x, y)

----------------------------------------------------------------------------
(* SpecTele: things stand along the corridor and one of them is teleported *)

MaxTeles == 1

TeleKinds == {"player", "voodoo", "monster"}
TeleXs == {U(24), U(76), U(77), U(112)}
TeleZs == {0, U(64)}

InitTele ==
    /\ \E c \in {<<0, 0, U(128)>>, <<MAXSTEP, 0, U(72)>>},
          k1 \in TeleKinds, ko \in OtherKinds \cup {"player"}, x1 \in FirstXs :
          InitWorld(SpawnAll(EmptyWorld(CorridorSectors(c)), 1, k1, ko, x1))
    /\ env \in {[EnvRest EXCEPT !.infiniteheight = ih, !.gamemap = gm,
                                !.telefragonmap30 = t30] :
                    ih \in BOOLEAN, gm \in {1, 30}, t30 \in BOOLEAN}
    /\ slide = SlideRest
    /\ obs = ObsRest

\* P_TeleportMove(t, x, y, z, boss): the call's record holds the things and
\* the threads as they were before it
TeleDone(r, t, x, z, boss) ==
    /\ Commit(r.w)
    /\ obs' = [op |-> "P_TeleportMove", n |-> obs.n + 1, thing |-> t,
               x |-> x, y |-> mobj[t].y, z |-> z, boss |-> boss,
               pre |-> mobj, preheap |-> heap, preblock |-> blocklinks,
               ok |-> r.ok, dmg |-> r.w.dmg]

TeleMove(t, x, z, boss) ==
    /\ obs.n < MaxTeles
    /\ mobj[t].linked
    /\ TeleDone(P_TeleportMove(World, t, x, mobj[t].y, z, boss), t, x, z, boss)
    /\ UNCHANGED <<sectors, env, slide>>

NextTele ==
    \/ \E t \in Things, x \in TeleXs, z \in TeleZs, boss \in BOOLEAN :
          TeleMove(t, x, z, boss)
    \/ \E t \in Things : MoveLand(t)

SpecTele == InitTele /\ [][NextTele]_vars

----------------------------------------------------------------------------
(* Claims about teleporting (SpecTele) *)

\* the call was made in telefrag context
TeleContext ==
    \/ obs.pre[obs.thing].player # "none"
    \/ obs.boss
    \/ env.gamemap = 30 /\ env.telefragonmap30

\* the box of thing u overlapped the mover's box at the destination
TeleOverlaps(u) ==
    /\ ABS(obs.pre[u].x - obs.x) < obs.pre[u].radius + obs.pre[obs.thing].radius
    /\ ABS(obs.pre[u].y - obs.y) < obs.pre[u].radius + obs.pre[obs.thing].radius

\* the other shootable things whose box overlapped the destination
TeleOccupants ==
    {u \in Things \ {obs.thing} :
        /\ obs.pre[u].linked
        /\ "MF_SHOOTABLE" \in obs.pre[u].flags
        /\ TeleOverlaps(u)}

\* thing u was wholly above or below a mover that can pass over things
TeleExempt(u) ==
    /\ "MF2_PASSMOBJ" \in obs.pre[obs.thing].flags2
    /\ ~env.infiniteheight
    /\ \/ obs.z > obs.pre[u].z + obs.pre[u].height
       \/ obs.z + obs.pre[obs.thing].height < obs.pre[u].z

Stomped(u) ==
    \E i \in DOMAIN obs.dmg :
        obs.dmg[i].target = u /\ obs.dmg[i].damage = STOMPDAMAGE

\* C6: P_TeleportMove in telefrag context always succeeds, and the stomp
\* damage of 10000 goes to every other shootable thing whose box overlaps
\* the destination, except those wholly above or below a mover with
\* MF2_PASSMOBJ while infiniteheight is off, and to nothing else.
C6_TelefragStomps ==
    (obs.op = "P_TeleportMove" /\ TeleContext)
        => /\ obs.ok
           /\ \A u \in Things :
                 Stomped(u) <=> (u \in TeleOccupants /\ ~TeleExempt(u))

\* a telefragging teleport has stomped one occupant and spared another or,
\* with one occupant only, stomped it from a mover that can pass over things
C6_Witness ==
    /\ obs.op = "P_TeleportMove"
    /\ TeleContext
    /\ obs.ok
    /\ \E u \in TeleOccupants : Stomped(u) /\ mobj[u].health <= 0
    /\ "MF2_PASSMOBJ" \in obs.pre[obs.thing].flags2
    /\ mobj[obs.thing].x = obs.x

\* the vertical exemption at work: an occupant left alone
C6_Spared ==
    /\ obs.op = "P_TeleportMove"
    /\ TeleContext
    /\ \E u \in TeleOccupants : TeleExempt(u) /\ ~Stomped(u)

\* no thing, thread or cell list differs from what it was before the call
TeleUnmoved ==
    /\ \A u \in Things : mobj[u] = obs.pre[u]
    /\ heap = obs.preheap
    /\ blocklinks = obs.preblock

\* C7: P_TeleportMove outside telefrag context fails whenever another
\* shootable thing's box overlaps the destination, and a failed teleport
\* damages nothing and leaves the mover's position, floorz, ceilingz,
\* dropoffz and sector membership (every thing, thread and cell list) as
\* they were.
C7_RefusedTeleport ==
    obs.op = "P_TeleportMove"
        => /\ (~TeleContext /\ TeleOccupants # {}) => ~obs.ok
           /\ ~obs.ok => (obs.dmg = <<>> /\ TeleUnmoved)

\* a monster's teleport onto an occupied place has been refused
C7_Witness ==
    /\ obs.op = "P_TeleportMove"
    /\ ~TeleContext
    /\ TeleOccupants # {}
    /\ ~obs.ok
    /\ obs.x # mobj[obs.thing].x

----------------------------------------------------------------------------
(* Radius attack: PIT_RadiusAttack and P_RadiusAttack *)

\* the bomb's statics: bombspot, bombsource, bombdamage, bombverticality,
\* and the things P_CheckSight(thing, bombspot) finds in direct path
Bomb(spot, source, damage, verticality, sight) ==
    [bombspot |-> spot, bombsource |-> source, bombdamage |-> damage,
     bombverticality |-> verticality, sight |-> sight]

\* dist = MAX(ABS(thing->x - bombspot->x), ABS(thing->y - bombspot->y))
BombDist_Origin(m, spot) ==
    MAX(ABS(m.x - spot.x), ABS(m.y - spot.y))

\*            - thing->radius
BombDist(m, spot) ==
    MAX(ABS(m.x - spot.x), ABS(m.y - spot.y)) - m.radius

\* [BH] count number of times player's rockets hit a monster
BombCount(w, spot, m) ==
    IF /\ w.mobj[spot].type = "MT_ROCKET"
       /\ m.type # "MT_BARREL"
       /\ "MF_CORPSE" \notin m.flags
    THEN [w EXCEPT !.mobj[spot].nudge = @ + 1]
    ELSE w

\* the damage dealt whether or not the thing is in sight
BombHit_Blind(w, b, thing, m, dist) ==
    BombCount(P_DamageMobj(w, thing, b.bombspot, b.bombsource,
                           b.bombdamage - dist),
              b.bombspot, m)

\* must be in direct path
BombHit(w, b, thing, m, dist) ==
    IF thing \in b.sight
    THEN BombCount(P_DamageMobj(w, thing, b.bombspot, b.bombsource,
                                b.bombdamage - dist),
                   b.bombspot, m)
    ELSE w

\* [BH] check z height for blast damage
BombAboveOrBelow(m, spot) ==
    \/ m.floorz > spot.z /\ spot.ceilingz < m.z
    \/ m.ceilingz < spot.z /\ spot.floorz > m.z

BombFlat(w, b, thing, m, dist) ==
    IF dist >= b.bombdamage THEN w ELSE BombHit(w, b, thing, m, dist)

BombTall(w, b, thing, m, spot, dist) ==
    IF dist >= b.bombdamage THEN w
    ELSE IF BombAboveOrBelow(m, spot) THEN w
    ELSE BombHit(w, b, thing, m, dist)

BombRange(w, b, thing, m, spot, dist) ==
    IF ~b.bombverticality \/ env.infiniteheight \/ m.type = "MT_BOSSBRAIN"
    THEN BombFlat(w, b, thing, m, MAX(0, SHR(dist, FRACBITS)))
    ELSE BombTall(w, b, thing, m, spot,
                  MAX(0, SHR(MAX(dist, ABS(m.z + SHR(m.height, 1) - spot.z)),
                             FRACBITS)))

PIT_RadiusAttack(w, b, thing) ==
    IF w.mobj[thing].flags \cap {"MF_SHOOTABLE", "MF_CORPSE"} = {} THEN w
    ELSE IF w.mobj[thing].type \in {"MT_CYBORG", "MT_SPIDER"} THEN w
    ELSE BombRange(w, b, thing, w.mobj[thing], w.mobj[b.bombspot],
                   BombDist(w.mobj[thing], w.mobj[b.bombspot]))

\* P_BlockThingsIterator(x, y, PIT_RadiusAttack) over the cell's things
RECURSIVE RadiusThings(_, _, _, _)
RadiusThings(w, b, q, i) ==
    IF i > Len(q) THEN w
    ELSE RadiusThings(PIT_RadiusAttack(w, b, q[i]), b, q, i + 1)

P_RadiusAttack(w, spot, source, damage, verticality, sight) ==
    RadiusThings(w, Bomb(spot, source, damage, verticality, sight),
                 w.blocklinks, 1)

----------------------------------------------------------------------------
(* SpecBlast: a rocket explodes somewhere along the corridor               *)

MaxBlasts == 1

BlastXs == {U(52), U(72), U(72) + FRACUNIT \div 2, U(112)}
BlastZs == {0, U(28)}
BlastDamages == {128, 40, 20}
BlastKinds == {"monster", "player", "corpse", "pickup", "cyborg"}

\* the corridor level throughout, or the far sector a ledge above a low
\* middle sector
BlastSectors(ledge) ==
    [s \in Sectors |->
       IF ~ledge THEN SectorRest
       ELSE [SectorRest EXCEPT
               !.floorheight = IF s = 3 THEN U(72) ELSE 0,
               !.ceilingheight = IF s = 2 THEN U(64) ELSE U(200)]]

WithZ(w, t, z) == [w EXCEPT !.mobj[t].z = z]

InitBlast ==
    /\ \E ledge \in BOOLEAN, ko \in BlastKinds, x1 \in BlastXs, z1 \in BlastZs :
          InitWorld(WithZ(SpawnAll(EmptyWorld(BlastSectors(ledge)), 1,
                                   "rocket", ko, x1),
                          1, z1))
    /\ env \in {EnvRest, [EnvRest EXCEPT !.infiniteheight = TRUE]}
    /\ slide = SlideRest
    /\ obs = ObsRest

\* P_RadiusAttack(spot, source, damage, verticality)
BlastDone(w, b) ==
    /\ Commit(w)
    /\ obs' = [op |-> "P_RadiusAttack", n |-> obs.n + 1, spot |-> b.bombspot,
               source |-> b.bombsource, damage |-> b.bombdamage,
               verticality |-> b.bombverticality, sight |-> b.sight,
               pre |-> mobj, dmg |-> w.dmg]

BlastAttack(spot, source, damage, verticality, sight) ==
    /\ obs.n < MaxBlasts
    /\ mobj[spot].linked
    /\ mobj[spot].type = "MT_ROCKET"
    /\ source # spot
    /\ BlastDone(P_RadiusAttack(World, spot, source, damage, verticality, sight),
                 Bomb(spot, source, damage, verticality, sight))
    /\ UNCHANGED <<sectors, env, slide>>

NextBlast ==
    \E spot \in Things, source \in Things \cup {NULL}, damage \in BlastDamages,
       verticality \in BOOLEAN :
        \E sight \in SUBSET (Things \ {spot}) :
            BlastAttack(spot, source, damage, verticality, sight)

SpecBlast == InitBlast /\ [][NextBlast]_vars

----------------------------------------------------------------------------
(* Claims about the radius attack (SpecBlast) *)

Spot == obs.pre[obs.spot]

BlastTargets == {u \in Things \ {obs.spot} : obs.pre[u].linked}

\* the damage thing u received in the call, if any
Blasted(u, amount) ==
    \E i \in DOMAIN obs.dmg :
        obs.dmg[i].target = u /\ obs.dmg[i].damage = amount

Unblasted(u) == \A i \in DOMAIN obs.dmg : obs.dmg[i].target # u

\* the planar distance between the origins of thing u and the blast, in
\* whole map units (the things of the corridor are in line with the blast,
\* so that every planar metric agrees)
PlanarDistance(u) ==
    SHR(MAX(ABS(obs.pre[u].x - Spot.x), ABS(obs.pre[u].y - Spot.y)), FRACBITS)

\* the distance from the blast to the nearest edge of thing u's box
EdgeDistance(u) ==
    MAX(0, SHR(MAX(ABS(obs.pre[u].x - Spot.x), ABS(obs.pre[u].y - Spot.y))
                   - obs.pre[u].radius, FRACBITS))

\* thing u is on the blast plane: the blast is level with its middle, and
\* both are within the same floor and ceiling
OnBlastPlane(u) ==
    /\ Spot.z = obs.pre[u].z + SHR(obs.pre[u].height, 1)
    /\ Spot.floorz = obs.pre[u].floorz
    /\ Spot.ceilingz = obs.pre[u].ceilingz

BlastCase(u) ==
    /\ "MF_SHOOTABLE" \in obs.pre[u].flags
    /\ u \in obs.sight
    /\ OnBlastPlane(u)

\* C8 as stated: D - d for the planar distance d between the origins
C8_AsStated ==
    obs.op = "P_RadiusAttack"
        => \A u \in BlastTargets :
              /\ (BlastCase(u) /\ PlanarDistance(u) < obs.damage)
                    => Blasted(u, obs.damage - PlanarDistance(u))
              /\ ("MF_SHOOTABLE" \in obs.pre[u].flags
                  /\ PlanarDistance(u) >= obs.damage) => Unblasted(u)

\* C8: in a radius attack with damage D a shootable thing other than a
\* cyberdemon or spider mastermind, on the blast plane and in direct path,
\* whose box edge is d < D whole units from the blast (the larger of
\* |dx| and |dy|, less its radius, not below 0) receives exactly D - d; a
\* thing with d >= D receives nothing.
C8_RadiusFalloff ==
    obs.op = "P_RadiusAttack"
        => \A u \in BlastTargets :
              /\ (/\ BlastCase(u)
                  /\ obs.pre[u].type \notin {"MT_CYBORG", "MT_SPIDER"}
                  /\ EdgeDistance(u) < obs.damage)
                    => Blasted(u, obs.damage - EdgeDistance(u))
              /\ EdgeDistance(u) >= obs.damage => Unblasted(u)

\* a blast of 128 has hit a monster of radius 20 whose origin is 60 units
\* away, its edge 40: it received 88
C8_Witness ==
    /\ obs.op = "P_RadiusAttack"
    /\ obs.damage = 128
    /\ \E u \in BlastTargets :
          /\ BlastCase(u)
          /\ PlanarDistance(u) = 60
          /\ EdgeDistance(u) = 40
          /\ Blasted(u, 88)
          /\ mobj[u].health = obs.pre[u].health - 88

\* beyond the blast: a thing whose edge is at the damage or further
C8_OutOfRange ==
    /\ obs.op = "P_RadiusAttack"
    /\ \E u \in BlastTargets :
          /\ BlastCase(u)
          /\ EdgeDistance(u) >= obs.damage
          /\ Unblasted(u)

----------------------------------------------------------------------------
(* Sector height changes: P_ThingHeightClip, PIT_ChangeSector and           *)
(* P_ChangeSector                                                          *)

MAXGEAR == 22

\* the thing's new z: clipped feet and walking things follow the floor, a
\* floating thing is only moved when forced to
ClipBob(m, t, z) ==
    IF z + m.height > t.tmceilingz THEN t.tmceilingz - m.height ELSE z

HeightClipZ(m, t) ==
    IF "MF2_FEETARECLIPPED" \in m.flags2 /\ m.player = "none" /\ env.r_liquid_bob
    THEN t.tmfloorz
    ELSE IF "MF2_FLOATBOB" \in m.flags2
    THEN ClipBob(m, t, IF t.tmfloorz > m.floorz \/ "MF_NOGRAVITY" \notin m.flags
                       THEN m.z - m.floorz + t.tmfloorz ELSE m.z)
    ELSE IF m.z = m.floorz THEN t.tmfloorz
    ELSE ClipBob(m, t, m.z)

\* killough 11/98: possibly upset balance of objects hanging off ledges
HeightClipGear(m) ==
    IF /\ ~("MF2_FEETARECLIPPED" \in m.flags2 /\ m.player = "none"
            /\ env.r_liquid_bob)
       /\ "MF2_FLOATBOB" \notin m.flags2
       /\ m.z = m.floorz
       /\ "MF2_FALLING" \in m.flags2
       /\ m.gear >= MAXGEAR
    THEN 0 ELSE m.gear

\* m is the thing as it was on entry, w the world after P_CheckPosition
HeightClipped(w, thing, m) ==
    Ret([w EXCEPT !.mobj[thing].floorz = w.tm.tmfloorz,
                  !.mobj[thing].ceilingz = w.tm.tmceilingz,
                  !.mobj[thing].dropoffz = w.tm.tmdropoffz,
                  !.mobj[thing].z = HeightClipZ(m, w.tm),
                  !.mobj[thing].gear = HeightClipGear(m)],
        w.tm.tmceilingz - w.tm.tmfloorz >= w.mobj[thing].height)

P_ThingHeightClip(w, thing, rnd) ==
    HeightClipped(P_CheckPosition(w, thing, w.mobj[thing].x, w.mobj[thing].y,
                                  rnd).w,
                  thing, w.mobj[thing])

\* what a pass over the sector's things has come to: the world and nofit
Fit(w, nofit) == [w |-> w, nofit |-> nofit]

\* crunch bodies to giblets
CrunchBody(w, thing, m, nofit) ==
    IF m.player # "none" THEN Fit(w, TRUE)
    ELSE IF "MF_NOBLOOD" \notin m.flags /\ m.blood
    THEN Fit([w EXCEPT !.mobj[thing].flags = @ \ {"MF_SOLID"},
                       !.mobj[thing].height = 0,
                       !.mobj[thing].radius = 0],
             nofit)
    ELSE Fit(w, nofit)

\* the mobj slots that have never held a thing
FreeSlots(w) ==
    {t \in Things : ~w.mobj[t].linked /\ w.mobj[t].subsector = NULL}

\* the number of blood objects a crushed thing sprays
BLOODSPRAYS == 4

\* mo = P_SpawnMobj(thing->x, thing->y, z, type), then its momentum
SprayOne(w, t, m, rnd) ==
    [P_SpawnMobj(w, t, "blood", m.x)
       EXCEPT !.mobj[t].z = m.z + (m.height * 2) \div 3,
              !.mobj[t].momx = rnd.r * 2048,
              !.mobj[t].momy = rnd.r2 * 2048]

\* spray blood in a random direction, k times (as far as there are slots)
RECURSIVE SprayLoop(_, _, _, _)
SprayLoop(w, thing, rnd, k) ==
    IF k = 0 \/ FreeSlots(w) = {} THEN w
    ELSE SprayLoop(SprayOne(w, CHOOSE t \in FreeSlots(w) :
                                   \A u \in FreeSlots(w) : t <= u,
                            w.mobj[thing], rnd),
                   thing, rnd, k - 1)

SprayBlood(w, thing, rnd) ==
    IF "MF_NOBLOOD" \notin w.mobj[thing].flags /\ w.mobj[thing].blood
    THEN SprayLoop(w, thing, rnd, BLOODSPRAYS)
    ELSE w

\* if (crushchange && !(leveltime & 3)): P_DamageMobj(thing, NULL, NULL, 10)
CrushThing_EveryTic(w, thing, crunch, rnd) ==
    IF crunch
    THEN Fit(P_DamageMobj(SprayBlood(w, thing, rnd), thing, NULL, NULL,
                          CRUSHDAMAGE), TRUE)
    ELSE Fit(w, TRUE)

CrushThing(w, thing, crunch, rnd) ==
    IF crunch /\ env.leveltime % 4 = 0
    THEN Fit(P_DamageMobj(SprayBlood(w, thing, rnd), thing, NULL, NULL,
                          CRUSHDAMAGE), TRUE)
    ELSE Fit(w, TRUE)

\* PIT_ChangeSector once the thing is known not to fit; m is the thing after
\* P_ThingHeightClip, flags its flags on entry
ChangeSectorNoFit(w, thing, m, flags, crunch, nofit, rnd) ==
    IF m.health <= 0 /\ "MF2_CRUSHABLE" \in m.flags2
    THEN CrunchBody(w, thing, [m EXCEPT !.flags = flags], nofit)
    ELSE IF "MF_DROPPED" \in flags THEN Fit(P_RemoveMobj(w, thing), nofit)
    ELSE IF "MF_SHOOTABLE" \notin flags THEN Fit(w, nofit)
    ELSE CrushThing(w, thing, crunch, rnd)

ChangeSectorClipped(r, thing, flags, crunch, nofit, rnd) ==
    IF r.ok THEN Fit(r.w, nofit)
    ELSE ChangeSectorNoFit(r.w, thing, r.w.mobj[thing], flags, crunch, nofit,
                           rnd)

PIT_ChangeSector(w, thing, crunch, nofit, rnd) ==
    ChangeSectorClipped(P_ThingHeightClip(w, thing, rnd), thing,
                        w.mobj[thing].flags, crunch, nofit, rnd)

\* mark all things invalid
RECURSIVE UnvisitAll(_, _)
UnvisitAll(nd, q) ==
    IF q = <<>> THEN nd
    ELSE UnvisitAll([nd EXCEPT ![Head(q)].visited = FALSE], Tail(q))

\* the first node of the sector's thread not yet processed, or NULL
FirstUnvisited(nd, q) ==
    IF \A i \in DOMAIN q : nd[q[i]].visited THEN NULL
    ELSE q[CHOOSE i \in DOMAIN q :
               /\ ~nd[q[i]].visited
               /\ \A j \in 1 .. (i - 1) : nd[q[j]].visited]

\* mark the thing as processed and process it
ChangeSectorNode(w, n, thing, crunch, nofit, rnd) ==
    IF thing # NULL /\ "MF_NOBLOCKMAP" \notin w.mobj[thing].flags
    THEN PIT_ChangeSector([w EXCEPT !.heap.node[n].visited = TRUE],
                          thing, crunch, nofit, rnd)
    ELSE Fit([w EXCEPT !.heap.node[n].visited = TRUE], nofit)

\* repeat from scratch until all things left are marked valid
\* the scan's record of taking up node n: the thing it is for, whether it is
\* on the sector's thread and whether it is on the free list
Scanned(w, n, sector) ==
    [w EXCEPT !.scanned =
        Append(@, [node |-> n, thing |-> w.heap.node[n].m_thing,
                   listed |-> n \in Range(SThread(w.heap.node,
                                   w.heap.touching_thinglist[sector], MaxNodes)),
                   free |-> n \in Range(SThread(w.heap.node,
                                   w.heap.headsecnode, MaxNodes))])]

RECURSIVE ChangeSectorLoop(_, _, _, _)
ChangeSectorAt(r, n, sector, crunch, rnd) ==
    IF n = NULL THEN r
    ELSE ChangeSectorLoop(
             ChangeSectorNode(Scanned(r.w, n, sector), n,
                              r.w.heap.node[n].m_thing, crunch, r.nofit, rnd),
             sector, crunch, rnd)

\* variant: the scan goes on from the node it has processed
ChangeSectorLoop_Onward(r, sector, crunch, rnd) ==
    ChangeSectorAt(r,
        FirstUnvisited(r.w.heap.node,
                       SThread(r.w.heap.node,
                               IF r.w.scanned = <<>>
                               THEN r.w.heap.touching_thinglist[sector]
                               ELSE r.w.heap.node[
                                        r.w.scanned[Len(r.w.scanned)].node].m_snext,
                               MaxNodes)),
        sector, crunch, rnd)

ChangeSectorLoop(r, sector, crunch, rnd) ==
    ChangeSectorAt(r,
        FirstUnvisited(r.w.heap.node,
                       SThread(r.w.heap.node,
                               r.w.heap.touching_thinglist[sector], MaxNodes)),
        sector, crunch, rnd)

P_ChangeSector(w, sector, crunch, rnd) ==
    ChangeSectorLoop(
        Fit([w EXCEPT !.heap.node =
                UnvisitAll(@, SThread(w.heap.node,
                                      w.heap.touching_thinglist[sector],
                                      MaxNodes))],
            FALSE),
        sector, crunch, rnd)

----------------------------------------------------------------------------
(* SpecCrush: the ceiling of a sector of the corridor is set to a height,   *)
(* P_ChangeSector is called for it, and the level's clock ticks.            *)

MaxCrushes == 2
MaxTics == 4

CrushSectors == {2, 3}
CrushHeights == {U(128), U(8)}
CrushKinds == {"monster", "player", "floater", "dropped"}
CrushOthers == {"monster", "corpse", "nothing"}
CrushXs == {U(40), U(72)}
CrushHealths == {100, 20}

\* the draw behind the momentum of the blood
CrushDraws == {d \in Draws : d.r = 1}

\* flesh and blood: what mobjinfo gives the things that can be crushed
Fleshed(m, health) ==
    [m EXCEPT !.health = IF "MF_SHOOTABLE" \in m.flags THEN health ELSE @,
              !.blood = "MF_SPECIAL" \notin m.flags,
              !.flags2 = IF "MF_SPECIAL" \notin m.flags
                         THEN @ \cup {"MF2_CRUSHABLE"} ELSE @]

AllFleshed(w, health) ==
    [w EXCEPT !.mobj = [t \in Things |-> IF w.mobj[t].linked
                                         THEN Fleshed(w.mobj[t], health)
                                         ELSE w.mobj[t]]]

\* the things of a scenario: the first alone, or with others
CrushThings(k1, ko, x1) ==
    IF ko = "nothing"
    THEN P_SpawnMobj(EmptyWorld([s \in Sectors |-> SectorRest]), 1, k1, x1)
    ELSE SpawnAll(EmptyWorld([s \in Sectors |-> SectorRest]), 1, k1, ko, x1)

\* memory that Z_Malloc has not handed out yet holds anything: the nodes
\* not yet allocated carry junk in their visited field
Uninitialized(w, junk) ==
    [w EXCEPT !.heap.node =
        [n \in Nodes |-> IF n > w.heap.nalloc
                         THEN [w.heap.node[n] EXCEPT !.visited = junk]
                         ELSE w.heap.node[n]]]

InitCrush ==
    /\ \E k1 \in CrushKinds, ko \in CrushOthers, x1 \in CrushXs,
          health \in CrushHealths, junk \in BOOLEAN :
          InitWorld(Uninitialized(AllFleshed(CrushThings(k1, ko, x1), health),
                                  junk))
    /\ env = EnvRest
    /\ slide = SlideRest
    /\ obs = ObsRest

\* the level's clock
CrushTick ==
    /\ env.leveltime < MaxTics
    /\ env' = [env EXCEPT !.leveltime = @ + 1]
    /\ UNCHANGED <<mobj, sectors, heap, blocklinks, tm, slide, obs>>

\* the record of a call: the things and the sector's members as they were
CrushDone(r, sector, crunch) ==
    /\ Commit(r.w)
    /\ sectors' = r.w.sectors
    /\ obs' = [op |-> "P_ChangeSector", n |-> obs.n + 1, sector |-> sector,
               crunch |-> crunch, leveltime |-> env.leveltime, pre |-> mobj,
               members |-> {t \in Things : sector \in MemberSectors(t)},
               thread |-> SectorThread(sector),
               nofit |-> r.nofit, dmg |-> r.w.dmg, scanned |-> r.w.scanned]

\* a plane mover sets the ceiling and has the things of the sector checked:
\* P_ChangeSector(sector, crunch)
CrushMove(sector, height, crunch, rnd) ==
    /\ obs.n < MaxCrushes
    /\ CrushDone(P_ChangeSector(
                     [World EXCEPT !.sectors[sector].ceilingheight = height],
                     sector, crunch, rnd),
                 sector, crunch)
    /\ UNCHANGED <<env, slide>>

NextCrush ==
    \/ CrushTick
    \/ \E sector \in CrushSectors, height \in CrushHeights, crunch \in BOOLEAN,
          rnd \in CrushDraws : CrushMove(sector, height, crunch, rnd)

SpecCrush == InitCrush /\ [][NextCrush]_vars

----------------------------------------------------------------------------
(* Claims about crushing (SpecCrush) *)

\* thing u got the crush damage in the call
Crushed(u) ==
    \E i \in DOMAIN obs.dmg :
        /\ obs.dmg[i].target = u
        /\ obs.dmg[i].damage = CRUSHDAMAGE
        /\ obs.dmg[i].inflictor = NULL
        /\ obs.dmg[i].source = NULL

\* the live shootable things touching the sector that do not fit between
\* the floor and the ceiling the call found for them
CrushVictims ==
    {u \in obs.members :
        /\ "MF_SHOOTABLE" \in obs.pre[u].flags
        /\ obs.pre[u].flags \cap {"MF_NOBLOCKMAP", "MF_DROPPED"} = {}
        /\ obs.pre[u].health > 0
        /\ mobj[u].ceilingz - mobj[u].floorz < obs.pre[u].height}

C9_OffTic ==
    /\ obs.op = "P_ChangeSector"
    /\ obs.crunch
    /\ obs.nofit
    /\ obs.leveltime % 4 # 0
    /\ CrushVictims # {}
    /\ obs.dmg = <<>>

\* without crush the misfit is reported and nothing is damaged
C9_NoCrush ==
    /\ obs.op = "P_ChangeSector"
    /\ ~obs.crunch
    /\ obs.nofit
    /\ CrushVictims # {}

\* the ceiling restored: the thing that was crushed fits again
C9_Restored ==
    /\ obs.op = "P_ChangeSector"
    /\ obs.crunch
    /\ ~obs.nofit
    /\ \E u \in obs.members : /\ obs.pre[u].health = 100 - CRUSHDAMAGE
                              /\ ~Crushed(u)
                              /\ "MF_SHOOTABLE" \in obs.pre[u].flags

\* the things touching the sector that, after the call, do not fit between
\* their floorz and ceilingz
Misfits ==
    {u \in obs.members :
        mobj[u].ceilingz - mobj[u].floorz < obs.pre[u].height}

\* C16: P_ChangeSector returns true whenever at least one thing touching the
\* sector does not fit (ceilingz - floorz < height) after the height change,
\* and false when every touching thing fits.
C16_NoFitReported ==
    obs.op = "P_ChangeSector" => (obs.nofit <=> Misfits # {})

\* the half of C16 that every call meets: with every touching thing fitting
\* the call returns false, and a true return has a misfit behind it
C16_FalseWhenAllFit ==
    obs.op = "P_ChangeSector" => (obs.nofit => Misfits # {})

\* a body that does not fit is crunched and the call returns false
C16_CrunchedUnreported ==
    /\ obs.op = "P_ChangeSector"
    /\ ~obs.nofit
    /\ \E u \in Misfits : "MF_CORPSE" \in obs.pre[u].flags /\ mobj[u].height = 0

\* a dropped item that does not fit is removed and the call returns false
C16_DroppedUnreported ==
    /\ obs.op = "P_ChangeSector"
    /\ ~obs.nofit
    /\ \E u \in Misfits : "MF_DROPPED" \in obs.pre[u].flags /\ ~mobj[u].linked

\* the things the call spawned
SpawnedInCall == {t \in Things : ~obs.pre[t].linked /\ mobj[t].linked}

\* C18: a P_ChangeSector call takes up only nodes that are on the sector's
\* thread at that moment (never one that is on the free list), takes up no
\* node and no thing twice, ends after at most as many nodes as the thread
\* had at the start plus those spawned during the call, and leaves every
\* node of the thread marked visited, also when the things processed are
\* removed from the thread or put new things on it.
C18_ScanOnce ==
    obs.op = "P_ChangeSector"
        => /\ \A i \in DOMAIN obs.scanned :
                 /\ obs.scanned[i].listed
                 /\ ~obs.scanned[i].free
                 /\ \A j \in DOMAIN obs.scanned :
                       \/ j = i
                       \/ /\ obs.scanned[j].node # obs.scanned[i].node
                          /\ obs.scanned[j].thing # obs.scanned[i].thing
           /\ Len(obs.scanned) <= Len(obs.thread) + Cardinality(SpawnedInCall)
           /\ \A n \in Range(SectorThread(obs.sector)) : heap.node[n].visited

\* the thing processed put a new thing on the thread, whose node the scan
\* then took up from the head
C18_Witness ==
    /\ obs.op = "P_ChangeSector"
    /\ SpawnedInCall # {}
    /\ Len(obs.scanned) > Len(obs.thread)
    /\ \E i \in DOMAIN obs.scanned : obs.scanned[i].thing \in SpawnedInCall

\* the new node came marked and the scan left it alone
C18_AddedMarked ==
    /\ obs.op = "P_ChangeSector"
    /\ SpawnedInCall # {}
    /\ Len(obs.scanned) = Len(obs.thread)
    /\ Len(SectorThread(obs.sector)) > Len(obs.thread)

\* a thing processed was removed, its node freed, and the scan went on
C18_Removed ==
    /\ obs.op = "P_ChangeSector"
    /\ Len(SectorThread(obs.sector)) < Len(obs.thread)
    /\ FreeList # <<>>
    /\ Len(obs.scanned) = Len(obs.thread)
    /\ Len(obs.thread) = 2

----------------------------------------------------------------------------
(* The probes: P_CheckOnmobj with PIT_CheckOnmobjZ and P_FakeZMovement     *)

GRAVITY == FRACUNIT
FLOATSPEED == 4 * FRACUNIT

\* P_FakeZMovement: adjust height
FakeZAdvance(m) == [m EXCEPT !.z = @ + m.momz]

\* the float step, delta being three times the height difference to the target
FakeZFloatBy(m, tg, delta) ==
    IF P_ApproxDistance(m.x - tg.x, m.y - tg.y) < ABS(delta)
    THEN [m EXCEPT !.z = IF delta < 0 THEN @ - FLOATSPEED ELSE @ + FLOATSPEED]
    ELSE m

\* P_FakeZMovement: float down towards target if too close
FakeZFloat(w, m) ==
    IF /\ "MF_FLOAT" \in m.flags
       /\ m.target # NULL
       /\ m.flags \cap {"MF_SKULLFLY", "MF_INFLOAT"} = {}
    THEN FakeZFloatBy(m, w.mobj[m.target],
                      (w.mobj[m.target].z + SHR(m.height, 1) - m.z) * 3)
    ELSE m

\* momz after the floor was hit
FloorBounce(m) ==
    IF "MF_SKULLFLY" \in m.flags THEN MAX(-m.momz, 0) ELSE MAX(m.momz, 0)

\* P_FakeZMovement: clip movement at the floor, else apply gravity
FakeZFloor(m) ==
    IF m.z <= m.floorz
    THEN [m EXCEPT !.momz = FloorBounce(m), !.z = m.floorz]
    ELSE IF "MF_NOGRAVITY" \notin m.flags
    THEN [m EXCEPT !.momz = (IF @ = 0 THEN -GRAVITY ELSE @) - GRAVITY]
    ELSE m

\* momz after the ceiling was hit
CeilingBounce(m) ==
    IF "MF_SKULLFLY" \in m.flags THEN -MIN(m.momz, 0) ELSE MIN(m.momz, 0)

\* P_FakeZMovement: clip movement at the ceiling
FakeZCeiling(m) ==
    IF m.z + m.height > m.ceilingz
    THEN [m EXCEPT !.momz = CeilingBounce(m), !.z = m.ceilingz - m.height]
    ELSE m

\* P_FakeZMovement(mo)
P_FakeZMovement(w, m) == FakeZCeiling(FakeZFloor(FakeZFloat(w, FakeZAdvance(m))))

\* PIT_CheckOnmobjZ(thing)
PIT_CheckOnmobjZ(w, thing, th, mv) ==
    IF "MF_SOLID" \notin th.flags THEN Ret(w, TRUE)
    ELSE IF th.flags \cap {"MF_CORPSE", "MF_SPECIAL"} # {} THEN Ret(w, TRUE)
    ELSE IF thing = w.tm.tmthing THEN Ret(w, TRUE)
    ELSE IF mv.z > th.z + th.height THEN Ret(w, TRUE)
    ELSE IF mv.z + mv.height <= th.z THEN Ret(w, TRUE)
    ELSE IF \/ ABS(th.x - w.tm.tmx) >= th.radius + mv.radius
            \/ ABS(th.y - w.tm.tmy) >= th.radius + mv.radius
    THEN Ret(w, TRUE)
    ELSE Ret([w EXCEPT !.tm.onmobj = thing], FALSE)

\* P_BlockThingsIterator(PIT_CheckOnmobjZ) over the cell's list q
RECURSIVE CheckOnmobjThings(_, _, _)
CheckOnmobjNext(r, q, i) ==
    IF r.ok THEN CheckOnmobjThings(r.w, q, i + 1) ELSE r

CheckOnmobjThings(w, q, i) ==
    IF i > Len(q) THEN Ret(w, TRUE)
    ELSE CheckOnmobjNext(PIT_CheckOnmobjZ(w, q[i], w.mobj[q[i]],
                                          w.mobj[w.tm.tmthing]), q, i)

\* what P_CheckOnmobj leaves: the world and the thing returned
Probed(w, onmobj) == [w |-> w, onmobj |-> onmobj]

\* P_CheckOnmobj: the scratch state once the fake movement is applied
CheckOnmobjStart(t, thing, m, newsec) ==
    [t EXCEPT
       !.tmthing = thing, !.tmx = m.x, !.tmy = m.y,
       !.tmbbox = Box(m.y + m.radius, m.y - m.radius,
                      m.x - m.radius, m.x + m.radius),
       !.ceilingline = NULL,
       !.tmfloorz = newsec.floorheight,
       !.tmdropoffz = newsec.floorheight,
       !.tmceilingz = newsec.ceilingheight,
       !.numspechit = 0]

\* if ((tmthing->flags & MF_NOCLIP) || freeze) return NULL;
CheckOnmobjEarly(w, thing, oldmo) == Probed(w, NULL)

\* the two returns behind the iterator: *tmthing = oldmo, then onmobj or NULL
CheckOnmobjFound(r, thing, oldmo) ==
    Probed([r.w EXCEPT !.mobj[thing] = oldmo],
           IF r.ok THEN NULL ELSE r.w.tm.onmobj)

CheckOnmobjFrom(w, thing, oldmo) ==
    IF "MF_NOCLIP" \in w.mobj[thing].flags \/ env.freeze
    THEN CheckOnmobjEarly(w, thing, oldmo)
    ELSE CheckOnmobjFound(CheckOnmobjThings(w, w.blocklinks, 1), thing, oldmo)

\* P_CheckOnmobj(thing)
P_CheckOnmobj(w, thing) ==
    CheckOnmobjFrom(
        [w EXCEPT
           !.mobj[thing] = P_FakeZMovement(w, @),
           !.tm = CheckOnmobjStart(
                      @, thing, w.mobj[thing],
                      w.sectors[R_PointInSubsector(w.mobj[thing].x,
                                                   w.mobj[thing].y)])],
        thing, w.mobj[thing])

----------------------------------------------------------------------------
(* SpecProbe: a thing of one of several kinds is put next to another thing, *)
(* on the floor or above it, at rest or moving up or down; its position is  *)
(* checked with P_CheckPosition and P_CheckOnmobj.                          *)

\* the number of probing calls a behaviour makes
MaxProbes == 2

ProbeKinds == {"player", "monster", "skull", "rocket", "ghost", "floater"}
ProbeOthers == {"monster", "corpse", "pickup"}
ProbeStarts == {U(88), U(100)}
ProbeXs == {U(64), U(100), U(104)}
ProbeZs == {0, U(60)}
ProbeMomzs == {0, -U(2), U(2)}

\* the first thing in flight: its height, its momentum, and the other thing
\* as the target of a floater
InFlight(w, z, momz) ==
    [w EXCEPT !.mobj[1].z = z, !.mobj[1].momz = momz,
              !.mobj[1].momx = IF "MF_NOGRAVITY" \in w.mobj[1].flags THEN U(8) ELSE 0,
              !.mobj[1].target = IF w.mobj[1].type = "MT_POSSESSED"
                                    /\ "MF_FLOAT" \in w.mobj[1].flags
                                 THEN 2 ELSE NULL]

InitProbe ==
    /\ \E k1 \in ProbeKinds, ko \in ProbeOthers, x1 \in ProbeStarts,
          z \in ProbeZs, momz \in ProbeMomzs :
          InitWorld(InFlight(SpawnAll(EmptyWorld(CorridorSectors(<<0, 0, U(128)>>)),
                                      1, k1, ko, x1),
                             z, momz))
    /\ env \in {EnvRest, [EnvRest EXCEPT !.freeze = TRUE]}
    /\ slide = SlideRest
    /\ obs = ObsRest

\* P_CheckPosition(t, x, y)
ProbePosition(t, x, rnd) ==
    /\ obs.n < MaxProbes
    /\ mobj[t].linked
    /\ Commit(P_CheckPosition(World, t, x, mobj[t].y, rnd).w)
    /\ obs' = [op |-> "P_CheckPosition", n |-> obs.n + 1, thing |-> t, x |-> x,
               pre |-> mobj,
               ok |-> P_CheckPosition(World, t, x, mobj[t].y, rnd).ok,
               dmg |-> P_CheckPosition(World, t, x, mobj[t].y, rnd).w.dmg]
    /\ UNCHANGED <<sectors, env, slide>>

\* P_CheckOnmobj(t)
ProbeOnmobj(t) ==
    /\ obs.n < MaxProbes
    /\ mobj[t].linked
    /\ Commit(P_CheckOnmobj(World, t).w)
    /\ obs' = [op |-> "P_CheckOnmobj", n |-> obs.n + 1, thing |-> t,
               pre |-> mobj, onmobj |-> P_CheckOnmobj(World, t).onmobj]
    /\ UNCHANGED <<sectors, env, slide>>

NextProbe ==
    \/ \E t \in Things, x \in ProbeXs, rnd \in Draws : ProbePosition(t, x, rnd)
    \/ \E t \in Things : ProbeOnmobj(t)

SpecProbe == InitProbe /\ [][NextProbe]_vars

----------------------------------------------------------------------------
(* Claims about the probes (SpecProbe) *)

\* thing u was a pickup and the last call took it
PickedUp(u) == "MF_SPECIAL" \in obs.pre[u].flags /\ ~mobj[u].linked

\* position, momentum, flags and health of thing u are those before the call
SameEntityState(u) ==
    /\ mobj[u].x = obs.pre[u].x
    /\ mobj[u].y = obs.pre[u].y
    /\ mobj[u].z = obs.pre[u].z
    /\ mobj[u].momx = obs.pre[u].momx
    /\ mobj[u].momy = obs.pre[u].momy
    /\ mobj[u].momz = obs.pre[u].momz
    /\ mobj[u].flags = obs.pre[u].flags
    /\ mobj[u].flags2 = obs.pre[u].flags2
    /\ mobj[u].health = obs.pre[u].health

\* C14: P_CheckPosition changes no entity state apart from picked-up items:
\* position, momentum, flags and health of the tested thing and of every
\* other thing are the same after the call as before.
C14_PurelyInformative ==
    obs.op = "P_CheckPosition"
        => \A u \in Things : PickedUp(u) \/ SameEntityState(u)

\* a pickup was taken and nothing else changed
C14_OnlyPickup ==
    /\ obs.op = "P_CheckPosition"
    /\ \E u \in Things : PickedUp(u)
    /\ \A u \in Things : PickedUp(u) \/ SameEntityState(u)

\* a corpse was nudged, a thing was damaged, the tested thing was deflected
C14_Nudged ==
    /\ obs.op = "P_CheckPosition"
    /\ \E u \in Things : u # obs.thing /\ mobj[u].momx # obs.pre[u].momx

C14_Damaged ==
    /\ obs.op = "P_CheckPosition"
    /\ \E u \in Things : u # obs.thing /\ mobj[u].health < obs.pre[u].health

C14_Slammed ==
    /\ obs.op = "P_CheckPosition"
    /\ "MF_SKULLFLY" \in obs.pre[obs.thing].flags
    /\ "MF_SKULLFLY" \notin mobj[obs.thing].flags

\* C15: P_CheckOnmobj leaves the thing as it was: on every return (a thing
\* found, none found, a no-clip thing, freeze mode) every field of the thing,
\* z and momz among them, has its value of before the call.
C15_ProbeRestores ==
    obs.op = "P_CheckOnmobj" => mobj[obs.thing] = obs.pre[obs.thing]

\* the returns behind the iterator restore the thing
C15_IteratedRestores ==
    (/\ obs.op = "P_CheckOnmobj"
     /\ "MF_NOCLIP" \notin obs.pre[obs.thing].flags
     /\ ~env.freeze)
        => mobj = obs.pre

\* a thing was found under a thing whose fake movement differs from its state
C15_Found ==
    /\ obs.op = "P_CheckOnmobj"
    /\ obs.onmobj # NULL
    /\ P_FakeZMovement([mobj |-> obs.pre], obs.pre[obs.thing]) # obs.pre[obs.thing]

\* the fake movement stayed with a no-clip thing, and with a thing in freeze mode
C15_NoClipMoved ==
    /\ obs.op = "P_CheckOnmobj"
    /\ "MF_NOCLIP" \in obs.pre[obs.thing].flags
    /\ ~env.freeze
    /\ mobj[obs.thing].momz # obs.pre[obs.thing].momz

C15_FrozenMoved ==
    /\ obs.op = "P_CheckOnmobj"
    /\ "MF_NOCLIP" \notin obs.pre[obs.thing].flags
    /\ env.freeze
    /\ mobj[obs.thing].z # obs.pre[obs.thing].z

----------------------------------------------------------------------------
(* SpecNest: P_CreateSecNodeList called while the scratch state of a       *)
(* validation is set: by the relink of P_TryMove, and by the spawn of a    *)
(* thing after a validation or after P_CheckLineSide                       *)

MaxNests == 3

\* PIT_CrossLine(ld): false when the trajectory (pe -> ls) is blocked by ld
PIT_CrossLine(t, ld, pe_x, pe_y, ls_x, ls_y) ==
    \/ ("ML_TWOSIDED" \in ld.flags /\ "ML_BLOCKING" \notin ld.flags)
    \/ t.tmbbox[BOXLEFT] > ld.bbox[BOXRIGHT]
    \/ t.tmbbox[BOXRIGHT] < ld.bbox[BOXLEFT]
    \/ t.tmbbox[BOXTOP] < ld.bbox[BOXBOTTOM]
    \/ t.tmbbox[BOXBOTTOM] > ld.bbox[BOXTOP]
    \/ P_PointOnLineSide(pe_x, pe_y, ld) = P_PointOnLineSide(ls_x, ls_y, ld)

\* the bounding box of the trajectory
TrajectoryBox(pe_x, pe_y, x, y) ==
    Box(MAX(pe_y, y), MIN(pe_y, y), MIN(pe_x, x), MAX(pe_x, x))

LineSideBlocked(w, m, x, y) ==
    Ret(w, \E l \in Lines : ~PIT_CrossLine(w.tm, lines[l], m.x, m.y, x, y))

\* P_CheckLineSide(actor, x, y)
P_CheckLineSide(w, actor, x, y) ==
    LineSideBlocked(
        [w EXCEPT !.tm.tmbbox = TrajectoryBox(w.mobj[actor].x, w.mobj[actor].y,
                                              x, y)],
        w.mobj[actor], x, y)

NestKinds == {"player", "monster", "pickup", "dropped"}
NestSpawns == {"skull", "dropped"}
NestStarts == {U(24), U(64)}
NestXs == {U(24), U(40), U(64), U(100)}

\* what the info table adds to a type's radius to give its pickupradius
Widenings == {0, U(4)}

\* the first thing alone in the corridor, its pickupradius as its info has it
Widened(w, by) ==
    P_SetThingPosition(
        P_UnsetThingPosition(
            [w EXCEPT !.mobj[1].pickupradius = w.mobj[1].radius + by], 1),
        1)

InitNest ==
    /\ \E k1 \in NestKinds, x1 \in NestStarts, by \in Widenings :
          InitWorld(Widened(P_SpawnMobj(EmptyWorld([s \in Sectors |-> SectorRest]),
                                        1, k1, x1),
                            by))
    /\ env = EnvRest
    /\ slide = SlideRest
    /\ obs = ObsRest

\* the part of the scratch state P_CreateSecNodeList works in
Scratch(t) ==
    [tmthing |-> t.tmthing, tmx |-> t.tmx, tmy |-> t.tmy, tmbbox |-> t.tmbbox]

\* P_TryMove(t, x, y, true): before is the scratch state P_CheckPosition
\* left, with which P_SetThingPosition is entered when the move goes through
NestMove(t, x, rnd) ==
    /\ obs.n < MaxNests
    /\ mobj[t].linked
    /\ Commit(P_TryMove(World, t, x, mobj[t].y, TRUE, rnd).w)
    /\ obs' = [op |-> "P_TryMove", n |-> obs.n + 1, thing |-> t,
               nested |-> P_TryMove(World, t, x, mobj[t].y, TRUE, rnd).at = "linked",
               before |-> Scratch(P_CheckPosition(World, t, x, mobj[t].y, rnd).w.tm),
               after |-> Scratch(P_TryMove(World, t, x, mobj[t].y, TRUE, rnd).w.tm)]
    /\ UNCHANGED <<sectors, env, slide>>

\* P_CheckLineSide(t, x, y)
NestLineSide(t, x) ==
    /\ obs.n < MaxNests
    /\ mobj[t].linked
    /\ Commit(P_CheckLineSide(World, t, x, mobj[t].y).w)
    /\ obs' = [op |-> "P_CheckLineSide", n |-> obs.n + 1, thing |-> t,
               nested |-> FALSE,
               ok |-> P_CheckLineSide(World, t, x, mobj[t].y).ok,
               before |-> Scratch(tm),
               after |-> Scratch(P_CheckLineSide(World, t, x, mobj[t].y).w.tm)]
    /\ UNCHANGED <<sectors, env, slide>>

\* P_SpawnMobj(x, y, z, type) of a thing not yet in the map
NestSpawn(t, kind, x) ==
    /\ obs.n < MaxNests
    /\ ~mobj[t].linked
    /\ Commit(P_SpawnMobj(World, t, kind, x))
    /\ obs' = [op |-> "P_SpawnMobj", n |-> obs.n + 1, thing |-> t,
               nested |-> TRUE, before |-> Scratch(tm),
               after |-> Scratch(P_SpawnMobj(World, t, kind, x).tm)]
    /\ UNCHANGED <<sectors, env, slide>>

NextNest ==
    \/ \E t \in Things, x \in NestXs, rnd \in CrushDraws : NestMove(t, x, rnd)
    \/ \E t \in Things, x \in NestXs : NestLineSide(t, x)
    \/ \E t \in Things, kind \in NestSpawns, x \in NestXs : NestSpawn(t, kind, x)

SpecNest == InitNest /\ [][NextNest]_vars

\* the last step called P_CreateSecNodeList with a thing under test set
InProgress ==
    /\ obs.op \in {"P_TryMove", "P_SpawnMobj"}
    /\ obs.nested
    /\ obs.before.tmthing # NULL

C19_ThingAndPoint ==
    InProgress
        => /\ obs.after.tmthing = obs.before.tmthing
           /\ obs.after.tmx = obs.before.tmx
           /\ obs.after.tmy = obs.before.tmy
           /\ obs.after.tmbbox
                 = Box(obs.after.tmy + mobj[obs.after.tmthing].radius,
                       obs.after.tmy - mobj[obs.after.tmthing].radius,
                       obs.after.tmx - mobj[obs.after.tmthing].radius,
                       obs.after.tmx + mobj[obs.after.tmthing].radius)

\* a nested call that found the box of the radius and left it
C19_RadiusBoxKept ==
    /\ InProgress
    /\ obs.op = "P_SpawnMobj"
    /\ obs.after = obs.before

\* the relink of a move replaced the box of the pickupradius
C19_PickupBoxLost ==
    /\ InProgress
    /\ obs.op = "P_TryMove"
    /\ obs.after.tmbbox # obs.before.tmbbox

\* a spawn replaced the box of a trajectory
C19_TrajectoryBoxLost ==
    /\ InProgress
    /\ obs.op = "P_SpawnMobj"
    /\ obs.after.tmbbox # obs.before.tmbbox

\* without a thing under test the box of the nested call stays
C19_NoThingBoxLeft ==
    /\ obs.op = "P_SpawnMobj"
    /\ obs.before.tmthing = NULL
    /\ obs.after.tmbbox # obs.before.tmbbox

----------------------------------------------------------------------------
(* The process: I_Error and I_Realloc (i_system.c)                         *)

\* sizeof(*spechit): a pointer to a line
PTRSIZE == 8

\* the process before anything went wrong; alloc is the size in bytes of the
\* block spechit points to
ProcRest == [exited |-> FALSE, already_quitting |-> FALSE, alloc |-> 0]

\* I_Error(error, ...): both branches end in exit(-1)
I_Error(p) == [p EXCEPT !.already_quitting = TRUE, !.exited = TRUE]

\* I_Realloc(ptr, size); newp is what realloc returned (NULL or a block)
I_Realloc(p, size, newp) ==
    IF newp = NULL /\ size # 0 THEN I_Error(p)
    ELSE [p EXCEPT !.alloc = IF newp = NULL THEN 0 ELSE size]

----------------------------------------------------------------------------
(* SpecHit: a validation is started and special lines are added to its     *)
(* list one callback at a time; the two special lines of the corridor      *)
(* stand for the special lines of a map that has many                      *)

MaxStarts == 2
MaxHits == 9

HitXs == {U(64), U(100)}
Blocks == {NULL, 1}

\* what one PIT_CheckLine call left: the scratch state, the process, the
\* index written (-1: none) and whether I_Realloc was called
Hit(t, p, wrote, asked) == [tm |-> t, proc |-> p, wrote |-> wrote, asked |-> asked]

\* the process did not survive I_Realloc: spechit_max is already assigned,
\* nothing is written
HitGrown(t, full, p, sec, l) ==
    IF p.exited
    THEN Hit([AdjustOpening(t, P_LineOpening(sec, lines[l]), l)
                EXCEPT !.spechit_max = full.spechit_max],
             p, -1, TRUE)
    ELSE Hit(full, p, t.numspechit, TRUE)

HitFull(t, full, p, sec, l, newp) ==
    IF full.spechit_max = t.spechit_max THEN Hit(full, p, t.numspechit, FALSE)
    ELSE HitGrown(t, full, I_Realloc(p, PTRSIZE * full.spechit_max, newp), sec, l)

\* PIT_CheckLine(ld) for a two-sided special line that crosses the box
HitSpecial(t, p, sec, l, newp) ==
    HitFull(t, CheckLineOpen(t, sec, lines[l], l), p, sec, l, newp)

InitHit ==
    /\ \E x1 \in NestStarts :
          InitWorld(P_SpawnMobj(EmptyWorld([s \in Sectors |-> SectorRest]),
                                1, "monster", x1))
    /\ env = EnvRest
    /\ slide = SlideRest
    /\ obs = [op |-> "none", n |-> 0, proc |-> ProcRest]

\* P_CheckPosition(thing, x, y) up to its iterators: numspechit = 0
HitStart(x) ==
    /\ ~obs.proc.exited
    /\ obs.n < MaxStarts
    /\ tm' = CheckPositionStart(tm, 1, mobj[1], x, mobj[1].y,
                                sectors[R_PointInSubsector(x, mobj[1].y)])
    /\ obs' = [op |-> "P_CheckPosition", n |-> obs.n + 1, proc |-> obs.proc]
    /\ UNCHANGED <<mobj, sectors, heap, blocklinks, env, slide>>

\* one callback of the lines pass
HitLine(l, newp) ==
    /\ ~obs.proc.exited
    /\ tm.tmthing # NULL
    /\ tm.numspechit < MaxHits
    /\ lines[l].special # 0
    /\ tm' = HitSpecial(tm, obs.proc, sectors, l, newp).tm
    /\ obs' = [op |-> "PIT_CheckLine", n |-> obs.n, pre |-> tm, newp |-> newp,
               line |-> l,
               proc |-> HitSpecial(tm, obs.proc, sectors, l, newp).proc,
               wrote |-> HitSpecial(tm, obs.proc, sectors, l, newp).wrote,
               asked |-> HitSpecial(tm, obs.proc, sectors, l, newp).asked]
    /\ UNCHANGED <<mobj, sectors, heap, blocklinks, env, slide>>

NextHit ==
    \/ \E x \in HitXs : HitStart(x)
    \/ \E l \in Lines, newp \in Blocks : HitLine(l, newp)

SpecHit == InitHit /\ [][NextHit]_vars

\* C20: a special line is written inside the allocated block; a full list is
\* doubled (8 the first time) before the write; a failed reallocation ends
\* the process and nothing is appended
C20_AppendInBounds ==
    obs.op = "PIT_CheckLine"
        => /\ obs.asked = (obs.pre.numspechit >= obs.pre.spechit_max)
           /\ obs.asked
                 => tm.spechit_max = (IF obs.pre.spechit_max = 0 THEN 8
                                      ELSE 2 * obs.pre.spechit_max)
           /\ ~obs.asked => tm.spechit_max = obs.pre.spechit_max
           /\ obs.proc.exited = (obs.asked /\ obs.newp = NULL)
           /\ obs.proc.exited
                 => /\ obs.wrote = -1
                    /\ tm.numspechit = obs.pre.numspechit
                    /\ tm.spechit = obs.pre.spechit
           /\ ~obs.proc.exited
                 => /\ obs.wrote = obs.pre.numspechit
                    /\ obs.wrote >= 0
                    /\ PTRSIZE * (obs.wrote + 1) <= obs.proc.alloc
                    /\ obs.proc.alloc = PTRSIZE * tm.spechit_max
                    /\ tm.numspechit = obs.wrote + 1
                    /\ tm.spechit[tm.numspechit] = obs.line
                    /\ SubSeq(tm.spechit, 1, obs.wrote)
                          = SubSeq(obs.pre.spechit, 1, obs.wrote)

\* the ninth line of a validation is written after the second doubling
C20_Witness ==
    /\ obs.op = "PIT_CheckLine"
    /\ obs.asked
    /\ obs.wrote = 8
    /\ tm.spechit_max = 16
    /\ ~obs.proc.exited

\* the second doubling failed: the process is gone with eight lines listed
C20_Fatal ==
    /\ obs.op = "PIT_CheckLine"
    /\ obs.proc.exited
    /\ obs.pre.numspechit = 8
    /\ tm.numspechit = 8

\* a later validation fills the list it has without asking for more
C20_Reused ==
    /\ obs.op = "PIT_CheckLine"
    /\ ~obs.asked
    /\ obs.wrote = 0
    /\ tm.spechit_max = 16

----------------------------------------------------------------------------
(* SpecCross: one thing, wide or narrow, stands at the far end of the      *)
(* corridor (a wide one overlaps the far wall, as a thing placed by the    *)
(* map may) and is moved back along it across the two special lines        *)

MaxCrossings == 2

CrossKinds == {"cyborg", "brute", "player"}
CrossStarts == {U(112), U(88)}
CrossXs == {U(68), U(92), U(112), U(40)}

InitCross ==
    /\ \E c \in Corridors, k1 \in CrossKinds, x1 \in CrossStarts :
          InitWorld(P_SpawnMobj(EmptyWorld(CorridorSectors(c)), 1, k1, x1))
    /\ env = EnvRest
    /\ slide = SlideRest
    /\ obs = ObsRest

\* the special-lines list as P_CheckPosition left it
ListedBy(r) == SubSeq(r.w.tm.spechit, 1, r.w.tm.numspechit)

\* P_TryMove(t, x, y, dropoff)
CrossMove(t, x, dropoff, rnd) ==
    /\ obs.n < MaxCrossings
    /\ mobj[t].linked
    /\ Commit(P_TryMove(World, t, x, mobj[t].y, dropoff, rnd).w)
    /\ obs' = [op |-> "P_TryMove", n |-> obs.n + 1, thing |-> t, x |-> x,
               pre |-> mobj[t],
               ok |-> P_TryMove(World, t, x, mobj[t].y, dropoff, rnd).ok,
               at |-> P_TryMove(World, t, x, mobj[t].y, dropoff, rnd).at,
               list |-> ListedBy(P_CheckPosition(World, t, x, mobj[t].y, rnd)),
               crossed |-> P_TryMove(World, t, x, mobj[t].y, dropoff, rnd).w.crossed]
    /\ UNCHANGED <<sectors, env, slide>>

NextCross ==
    \E t \in Things, x \in CrossXs, dropoff \in BOOLEAN, rnd \in CrushDraws :
        CrossMove(t, x, dropoff, rnd)

SpecCross == InitCross /\ [][NextCross]_vars

\* where a line stands in the list of the last call
ListedAt(l) == CHOOSE i \in DOMAIN obs.list : obs.list[i] = l

\* the last call was an accepted move that triggered several lines
SeveralCrossed ==
    /\ obs.op = "P_TryMove"
    /\ obs.ok
    /\ Len(obs.crossed) >= 2

\* C21 as stated: the lines one accepted move triggers are triggered in the
\* order in which they were appended to the list.
C21_InsertionOrder ==
    SeveralCrossed
        => \A i, j \in DOMAIN obs.crossed :
              i < j => ListedAt(obs.crossed[i].line) < ListedAt(obs.crossed[j].line)

\* C21, amended: the lines one accepted move triggers are triggered in the
\* reverse of the order in which they were appended (last appended first),
\* and every one of them is in the list.
C21_ReverseOrder ==
    obs.op = "P_TryMove"
        => /\ \A i \in DOMAIN obs.crossed :
                 \E k \in DOMAIN obs.list : obs.list[k] = obs.crossed[i].line
           /\ \A i, j \in DOMAIN obs.crossed :
                 i < j => ListedAt(obs.crossed[i].line)
                             > ListedAt(obs.crossed[j].line)

\* a wide thing walked out of the far wall across both special lines
C21_Witness ==
    /\ SeveralCrossed
    /\ obs.list = <<3, 4>>
    /\ obs.crossed[1].line = 4
    /\ obs.crossed[2].line = 3

----------------------------------------------------------------------------
(* SpecLine: one thing in the corridor; its position is validated          *)
(* (P_CheckPosition), or a validation is started and PIT_CheckLine is      *)
(* called for one line of the corridor carrying the flags a map may give   *)

MaxLineTests == 1

LineKinds == {"player", "voodoo", "monster", "corpse", "rocket"}
LineStarts == {U(24), U(64), U(120)}
LineXs == {U(8), U(40), U(64), U(96), U(116)}
LineCorridors == {<<0, 0, U(128)>>, <<MAXSTEP, -U(40), U(128)>>, <<MAXSTEP, 2 * MAXSTEP, U(72)>>}
LineFlagSets ==
    {{"ML_TWOSIDED"}, {"ML_TWOSIDED", "ML_BLOCKMONSTERS"},
     {"ML_TWOSIDED", "ML_BLOCKING"},
     {"ML_TWOSIDED", "ML_BLOCKING", "ML_BLOCKMONSTERS"}}

\* a monster that is a friend (MF_FRIEND)
Befriended(w, friend) ==
    IF friend THEN [w EXCEPT !.mobj[1].flags = @ \cup {"MF_FRIEND"}] ELSE w

InitLine ==
    /\ \E c \in LineCorridors, k1 \in LineKinds, x1 \in LineStarts,
          friend \in BOOLEAN :
          /\ friend => k1 = "monster"
          /\ InitWorld(Befriended(P_SpawnMobj(EmptyWorld(CorridorSectors(c)),
                                              1, k1, x1),
                                  friend))
    /\ env = EnvRest
    /\ slide = SlideRest
    /\ obs = ObsRest

\* P_CheckPosition(thing, x, y) up to its iterators
Started(w, thing, x) ==
    [w EXCEPT !.tm = CheckPositionStart(
                         @, thing, w.mobj[thing], x, w.mobj[thing].y,
                         w.sectors[R_PointInSubsector(x, w.mobj[thing].y)])]

\* the first two tests of PIT_CheckLine: the box crosses the line
BoxHitsLine(t, ld) ==
    /\ t.tmbbox[BOXRIGHT] > ld.bbox[BOXLEFT]
    /\ t.tmbbox[BOXLEFT] < ld.bbox[BOXRIGHT]
    /\ t.tmbbox[BOXTOP] > ld.bbox[BOXBOTTOM]
    /\ t.tmbbox[BOXBOTTOM] < ld.bbox[BOXTOP]
    /\ P_BoxOnLineSide(t.tmbbox, ld) = -1

\* PIT_CheckLine(ld) for line l carrying the flags fl
CheckLineFlagged(w, l, fl) ==
    IF BoxHitsLine(w.tm, lines[l])
    THEN CheckLineHit(w, [lines[l] EXCEPT !.flags = fl], l, w.mobj[w.tm.tmthing])
    ELSE Ret(w, TRUE)

\* one callback of the lines pass of P_CheckPosition(1, x, y)
LineCheck(x, l, fl) ==
    /\ obs.n < MaxLineTests
    /\ Commit(CheckLineFlagged(Started(World, 1, x), l, fl).w)
    /\ obs' = [op |-> "PIT_CheckLine", n |-> obs.n + 1, x |-> x, line |-> l,
               flags |-> fl, started |-> Started(World, 1, x).tm,
               hit |-> BoxHitsLine(Started(World, 1, x).tm, lines[l]),
               ok |-> CheckLineFlagged(Started(World, 1, x), l, fl).ok]
    /\ UNCHANGED <<sectors, env, slide>>

\* P_CheckPosition(1, x, y)
LinePosition(x, rnd) ==
    /\ obs.n < MaxLineTests
    /\ Commit(P_CheckPosition(World, 1, x, mobj[1].y, rnd).w)
    /\ obs' = [op |-> "P_CheckPosition", n |-> obs.n + 1, x |-> x,
               ok |-> P_CheckPosition(World, 1, x, mobj[1].y, rnd).ok]
    /\ UNCHANGED <<sectors, env, slide>>

NextLine ==
    \/ \E x \in LineXs, l \in Lines, fl \in LineFlagSets : LineCheck(x, l, fl)
    \/ \E x \in LineXs, rnd \in CrushDraws : LinePosition(x, rnd)

SpecLine == InitLine /\ [][NextLine]_vars

\* the last step was PIT_CheckLine for a line the trial box crosses
LineHit == obs.op = "PIT_CheckLine" /\ obs.hit

\* a mover that is not a player, not a corpse, not a friend, not a missile
MonsterLike(m) ==
    /\ m.player = "none"
    /\ m.flags \cap {"MF_CORPSE", "MF_FRIEND", "MF_MISSILE"} = {}

\* the opening of the line tightened the trial floor and ceiling
Opened ==
    /\ tm.tmfloorz
          = MAX(obs.started.tmfloorz,
                MAX(sectors[lines[obs.line].frontsector].floorheight,
                    sectors[lines[obs.line].backsector].floorheight))
    /\ tm.tmceilingz
          = MIN(obs.started.tmceilingz,
                MIN(sectors[lines[obs.line].frontsector].ceilingheight,
                    sectors[lines[obs.line].backsector].ceilingheight))

OneSidedBlocks ==
    (lines[obs.line].backsector = NULL /\ mobj[1].player # "real") => ~obs.ok

\* C22 as stated: a one-sided line the box crosses blocks every mover that is
\* not a real player; a two-sided monster-blocking line blocks exactly the
\* movers that are not a player, a corpse, a friend or a missile, and the
\* others go on to the opening test.
C22_AsStated ==
    LineHit
        => /\ OneSidedBlocks
           /\ (/\ lines[obs.line].backsector # NULL
               /\ "ML_BLOCKMONSTERS" \in obs.flags)
                 => /\ obs.ok = ~MonsterLike(mobj[1])
                    /\ obs.ok => Opened

\* C22, amended: the same, for a two-sided monster-blocking line that is not
\* also explicitly blocking.
C22_LineBlocks ==
    LineHit
        => /\ OneSidedBlocks
           /\ (/\ lines[obs.line].backsector # NULL
               /\ "ML_BLOCKMONSTERS" \in obs.flags
               /\ "ML_BLOCKING" \notin obs.flags)
                 => /\ obs.ok = ~MonsterLike(mobj[1])
                    /\ obs.ok => Opened

\* a monster is stopped by a monster-blocking line
C22_Witness ==
    /\ LineHit
    /\ obs.flags = {"ML_TWOSIDED", "ML_BLOCKMONSTERS"}
    /\ lines[obs.line].backsector # NULL
    /\ MonsterLike(mobj[1])
    /\ ~obs.ok

\* a corpse and a friend pass it and the opening narrows their trial range
C22_CorpsePasses ==
    /\ LineHit
    /\ obs.flags = {"ML_TWOSIDED", "ML_BLOCKMONSTERS"}
    /\ lines[obs.line].backsector # NULL
    /\ "MF_CORPSE" \in mobj[1].flags
    /\ obs.ok
    /\ tm.tmfloorz > obs.started.tmfloorz

C22_FriendPasses ==
    /\ LineHit
    /\ obs.flags = {"ML_TWOSIDED", "ML_BLOCKMONSTERS"}
    /\ lines[obs.line].backsector # NULL
    /\ "MF_FRIEND" \in mobj[1].flags
    /\ obs.ok

\* a player is stopped by a monster-blocking line that is blocking as well
C22_PlayerBlocked ==
    /\ LineHit
    /\ obs.flags = {"ML_TWOSIDED", "ML_BLOCKING", "ML_BLOCKMONSTERS"}
    /\ lines[obs.line].backsector # NULL
    /\ mobj[1].player = "real"
    /\ ~obs.ok

\* a wall stops a missile and a voodoo doll; a real player leaves it
C22_WallBlocks ==
    /\ LineHit
    /\ lines[obs.line].backsector = NULL
    /\ mobj[1].player = "voodoo"
    /\ ~obs.ok

C22_PlayerLeavesWall ==
    /\ LineHit
    /\ lines[obs.line].backsector = NULL
    /\ mobj[1].player = "real"
    /\ obs.ok

\* the two-sided lines that pass through the inside of the trial box the
\* last validation ended with
Contacted ==
    {l \in Lines : /\ lines[l].backsector # NULL
                   /\ tm.tmbbox[BOXLEFT] < lines[l].v1x
                   /\ lines[l].v1x < tm.tmbbox[BOXRIGHT]
                   /\ tm.tmbbox[BOXBOTTOM] < lines[l].bbox[BOXTOP]
                   /\ lines[l].bbox[BOXBOTTOM] < tm.tmbbox[BOXTOP]}

\* the floors and ceilings on either side of the contacted lines, and those
\* of the sector under the trial point
SidesOf(ls) == UNION {{lines[l].frontsector, lines[l].backsector} : l \in ls}
Highest(S) == CHOOSE a \in S : \A b \in S : b <= a
Lowest(S) == CHOOSE a \in S : \A b \in S : a <= b
OpenBottoms ==
    {MAX(sectors[lines[l].frontsector].floorheight,
         sectors[lines[l].backsector].floorheight) : l \in Contacted}
OpenTops ==
    {MIN(sectors[lines[l].frontsector].ceilingheight,
         sectors[lines[l].backsector].ceilingheight) : l \in Contacted}
LowFloors == {sectors[s].floorheight : s \in SidesOf(Contacted)}
TrialSector == sectors[R_PointInSubsector(tm.tmx, tm.tmy)]

\* the last step was a P_CheckPosition of a clipped thing that returned true
Validated ==
    /\ obs.op = "P_CheckPosition"
    /\ obs.ok
    /\ "MF_NOCLIP" \notin mobj[1].flags
    /\ ~env.freeze

\* C23: after a P_CheckPosition that returns true for a clipped thing the
\* trial floor is the highest of the sector's floor and the contacted lines'
\* open bottoms, the trial ceiling is at most the lowest of the sector's
\* ceiling and their open tops, the trial dropoff is the lowest floor on
\* either side of them or of the sector, and the dropoff is not above the
\* floor.
C23_TrialRange ==
    Validated
        => /\ tm.tmfloorz = Highest(OpenBottoms \cup {TrialSector.floorheight})
           /\ tm.tmceilingz <= Lowest(OpenTops \cup {TrialSector.ceilingheight})
           /\ tm.tmdropoffz = Lowest(LowFloors \cup {TrialSector.floorheight})
           /\ tm.tmdropoffz <= tm.tmfloorz

\* a position over two lines: the floor comes from one line, the dropoff
\* from the other, and neither is the floor of the sector under the point
C23_Witness ==
    /\ Validated
    /\ Cardinality(Contacted) >= 2
    /\ tm.tmfloorz > TrialSector.floorheight
    /\ tm.tmdropoffz < TrialSector.floorheight

\* a position over one line whose opening is lower than the sector's ceiling
C23_CeilingLowered ==
    /\ Validated
    /\ tm.tmceilingz < TrialSector.ceilingheight

----------------------------------------------------------------------------
(* Claims about the validator's thing test (SpecProbe) *)

\* thing u is solid, not a missile, not the mover's originator, and the
\* mover of the last P_CheckPosition, a missile with momentum, met it at the
\* trial position: inside its blocking distance, not over or under it
MissileMet(u) ==
    /\ obs.op = "P_CheckPosition"
    /\ ~env.freeze
    /\ u # obs.thing
    /\ obs.pre[u].linked
    /\ "MF_MISSILE" \in obs.pre[obs.thing].flags
    /\ obs.pre[obs.thing].momx # 0
    /\ "MF_SOLID" \in obs.pre[u].flags
    /\ "MF_MISSILE" \notin obs.pre[u].flags
    /\ u # obs.pre[obs.thing].target
    /\ ABS(obs.pre[u].x - obs.x)
          < obs.pre[u].pickupradius + obs.pre[obs.thing].radius
    /\ ABS(obs.pre[u].y - obs.pre[obs.thing].y)
          < obs.pre[u].pickupradius + obs.pre[obs.thing].radius
    /\ obs.pre[obs.thing].z <= obs.pre[u].z + obs.pre[u].height
    /\ obs.pre[obs.thing].z + obs.pre[obs.thing].height >= obs.pre[u].z

\* momentum b is momentum a reversed and reduced
Deflected(a, b) ==
    \/ a > 0 /\ b < 0 /\ -b <= a
    \/ a < 0 /\ b > 0 /\ b <= -a

----------------------------------------------------------------------------
(* Claims about the dropoff rules of the mover (SpecMove) *)

\* the last call was P_TryMove on a thing with neither MF_DROPOFF nor MF_FLOAT
GroundedMove ==
    /\ obs.op = "P_TryMove"
    /\ obs.pre.flags \cap {"MF_DROPOFF", "MF_FLOAT"} = {}

\* the floor or the dropoff falls by more than 24 units to the trial values
DropsTooFar ==
    \/ obs.pre.floorz - tm.tmfloorz > MAXSTEP
    \/ obs.pre.dropoffz - tm.tmdropoffz > MAXSTEP

\* the thing is under gravity and more than 24 units above the trial floor
FallsTooFar ==
    /\ "MF_NOGRAVITY" \notin obs.pre.flags
    /\ obs.pre.z - tm.tmfloorz > MAXSTEP

\* the call came to the dropoff rules: a clipped thing, the validator and
\* the fit and step tests passed
AtDropoffRules ==
    /\ ~env.freeze
    /\ "MF_NOCLIP" \notin obs.pre.flags
    /\ obs.at \in {"dropoff", "falling", "linked"}

\* C25 as stated: for a thing with neither MF_DROPOFF nor MF_FLOAT, P_TryMove
\* without dropoff rejects a move whose floor or dropoff falls by more than
\* 24 units; with dropoff it does not reject for that and sets felldown
\* exactly when the thing is under gravity and more than 24 above the floor.
C25_AsStated ==
    GroundedMove
        => /\ (~obs.dropoff /\ DropsTooFar) => ~obs.ok
           /\ obs.dropoff => /\ obs.at # "dropoff"
                             /\ tm.felldown = FallsTooFar

\* C25, amended: the same, for a clipped thing (not MF_NOCLIP, freeze off)
\* whose call came to the dropoff rules (the validator and the fit and step
\* tests passed).
C25_DropoffRules ==
    (GroundedMove /\ AtDropoffRules)
        => /\ (~obs.dropoff /\ DropsTooFar) => (~obs.ok /\ obs.at = "dropoff")
           /\ obs.at = "dropoff" => (~obs.dropoff /\ DropsTooFar)
           /\ obs.dropoff => tm.felldown = FallsTooFar
           /\ ~obs.dropoff => ~tm.felldown

\* a move rejected for its dropoff alone: the trial floor is a step up, the
\* trial dropoff a pit
C25_Witness ==
    /\ GroundedMove
    /\ AtDropoffRules
    /\ obs.at = "dropoff"
    /\ obs.pre.floorz - tm.tmfloorz <= MAXSTEP
    /\ obs.pre.dropoffz - tm.tmdropoffz > MAXSTEP

\* a move with dropoff that fell down
C25_FellDown ==
    /\ GroundedMove
    /\ AtDropoffRules
    /\ obs.dropoff
    /\ obs.ok
    /\ tm.felldown

\* a no-clip thing goes over the edge without dropoff
C25_NoClipDrops ==
    /\ GroundedMove
    /\ "MF_NOCLIP" \in obs.pre.flags
    /\ ~obs.dropoff
    /\ DropsTooFar
    /\ obs.ok

\* the step test ends a call with dropoff before felldown is set
C25_EndedBefore ==
    /\ GroundedMove
    /\ obs.dropoff
    /\ obs.at \in {"validator", "fit", "step"}
    /\ FallsTooFar
    /\ ~tm.felldown


----------------------------------------------------------------------------
(* The attacks: P_AimLineAttack with PTR_AimTraverse and P_LineAttack with *)
(* PTR_ShootTraverse, over P_PathTraverse's line and thing intercepts      *)

ORIGINALWIDTH == 320
ORIGINALHEIGHT == 200

\* the file-scope state of the attacks, and the log of one traversal: what
\* each intercept handed to the callback left behind
AttackRest ==
    [pc |-> "idle", shootthing |-> NULL, shootz |-> 0, attackrange |-> 0,
     la_damage |-> 0, aimslope |-> 0, topslope |-> 0, bottomslope |-> 0,
     linetarget |-> NULL, aim_flags_mask |-> {}, hitwall |-> FALSE,
     shot |-> <<>>, trace |-> <<>>]

\* intercept_t: a line or a thing, and the fraction of the trace it is at
Intercept(isaline, d, frac) == [isaline |-> isaline, d |-> d, frac |-> frac]

\* a / b of C: the quotient truncated towards zero
TruncDiv(a, b) == IF a >= 0 THEN a \div b ELSE -((-a) \div b)

\* PIT_AddThingIntercepts: a thing of the cell whose diagonal the trace
\* crosses in front of its source (on the axis of the corridor every
\* diagonal is crossed at the thing's origin)
ThingFrac(m, x1, x2) == FixedDiv(m.x - x1, x2 - x1)

ThingIntercepts(w, x1, x2) ==
    {Intercept(FALSE, w.blocklinks[i], ThingFrac(w.mobj[w.blocklinks[i]], x1, x2)) :
        i \in {j \in DOMAIN w.blocklinks :
                 ThingFrac(w.mobj[w.blocklinks[j]], x1, x2) >= 0}}

LineIntercepts(x1, x2) ==
    {Intercept(TRUE, l, InterceptFrac(x1, x2, lines[l])) :
        l \in Intercepts(x1, 0, x2, 0)}

\* the order in which intercepts were added: lines before things
InterceptRank(in) == IF in.isaline THEN in.d ELSE Len(lines) + in.d

\* P_TraverseIntercepts: the nearest intercept left (the first added among
\* equals)
NearestOf(S) ==
    CHOOSE in \in S :
        \A k \in S : \/ in.frac < k.frac
                     \/ in.frac = k.frac /\ InterceptRank(in) <= InterceptRank(k)

\* the intercepts in the order P_TraverseIntercepts hands them out
RECURSIVE InterceptOrder(_)
InterceptOrder(S) ==
    IF S = {} THEN <<>>
    ELSE <<NearestOf(S)>> \o InterceptOrder(S \ {NearestOf(S)})

\* one line of the log
Traced(la, in, r) ==
    Ret([r.w EXCEPT !.trace = Append(@, [in |-> in, ok |-> r.ok,
                                         top0 |-> la.topslope,
                                         bottom0 |-> la.bottomslope,
                                         top |-> r.w.topslope,
                                         bottom |-> r.w.bottomslope])],
        r.ok)

\* PTR_AimTraverse(in), a line: the window after the crossing
AimBottom(la, sec, li, o, dist) ==
    IF sec[li.frontsector].floorheight # sec[li.backsector].floorheight
    THEN MAX(la.bottomslope, FixedDiv(o.openbottom - la.shootz, dist))
    ELSE la.bottomslope

AimTop(la, sec, li, o, dist) ==
    IF sec[li.frontsector].ceilingheight # sec[li.backsector].ceilingheight
    THEN MIN(la.topslope, FixedDiv(o.opentop - la.shootz, dist))
    ELSE la.topslope

AimNarrowed(la, bottom, top) ==
    Ret([la EXCEPT !.bottomslope = bottom, !.topslope = top], ~(top <= bottom))

AimOpening(la, sec, li, o, dist) ==
    IF o.openbottom >= o.opentop THEN Ret(la, FALSE)
    ELSE AimNarrowed(la, AimBottom(la, sec, li, o, dist),
                     AimTop(la, sec, li, o, dist))

AimLine(w, la, li, frac) ==
    IF "ML_TWOSIDED" \notin li.flags THEN Ret(la, FALSE)
    ELSE AimOpening(la, w.sectors, li, P_LineOpening(w.sectors, li),
                    FixedMul(la.attackrange, frac))

\* the aim at the middle of the thing, the window ignored
AimHit_Unclipped(la, th, thingtopslope, thingbottomslope) ==
    [la EXCEPT !.aimslope = TruncDiv(thingtopslope + thingbottomslope, 2),
               !.linetarget = th]

\* PTR_AimTraverse(in), a thing: this thing can be hit!
AimHit(la, th, thingtopslope, thingbottomslope) ==
    [la EXCEPT !.aimslope = TruncDiv(MIN(thingtopslope, la.topslope)
                                       + MAX(thingbottomslope, la.bottomslope), 2),
               !.linetarget = th]

AimSlopes(la, th, thingtopslope, thingbottomslope) ==
    IF thingtopslope < la.bottomslope THEN Ret(la, TRUE)
    ELSE IF thingbottomslope > la.topslope THEN Ret(la, TRUE)
    ELSE Ret(AimHit(la, th, thingtopslope, thingbottomslope), FALSE)

AimThing(w, la, th, m, dist) ==
    IF th = la.shootthing THEN Ret(la, TRUE)
    ELSE IF "MF_SHOOTABLE" \notin m.flags THEN Ret(la, TRUE)
    ELSE IF /\ m.flags \cap w.mobj[la.shootthing].flags \cap la.aim_flags_mask # {}
            /\ m.player = "none"
    THEN Ret(la, TRUE)
    ELSE AimSlopes(la, th, FixedDiv(m.z + m.height - la.shootz, dist),
                   FixedDiv(m.z - la.shootz, dist))

PTR_AimTraverse(w, la, in) ==
    IF in.isaline THEN AimLine(w, la, lines[in.d], in.frac)
    ELSE AimThing(w, la, in.d, w.mobj[in.d], FixedMul(la.attackrange, in.frac))

\* P_TraverseIntercepts(PTR_AimTraverse, FRACUNIT) over the ordered
\* intercepts q
RECURSIVE AimTraverse(_, _, _, _)
AimTraverseNext(w, r, q, i) ==
    IF r.ok THEN AimTraverse(w, r.w, q, i + 1) ELSE r.w

AimTraverse(w, la, q, i) ==
    IF i > Len(q) THEN la
    ELSE IF q[i].frac > FRACUNIT THEN la
    ELSE AimTraverseNext(w, Traced(la, q[i], PTR_AimTraverse(w, la, q[i])), q, i)

\* x2 = t1->x + (distance >> FRACBITS) * finecosine[angle], along the
\* corridor: dir is 1 for angle 0 and -1 for ANG180
AttackEnd(m, dir, distance) == m.x + SHR(distance, FRACBITS) * (dir * FRACUNIT)

AttackOrder(w, m, dir, distance) ==
    InterceptOrder(LineIntercepts(m.x, AttackEnd(m, dir, distance))
                   \cup ThingIntercepts(w, m.x, AttackEnd(m, dir, distance)))

\* what P_AimLineAttack returns, with the statics it leaves
AimResult(la, slope) == [la |-> la, slope |-> slope]

AimReturn(la) ==
    AimResult(la, IF la.linetarget # NULL THEN la.aimslope ELSE 0)

\* P_AimLineAttack(t1, angle, distance, mask)
P_AimLineAttack(w, la, t1, dir, distance, mask) ==
    IF t1 = NULL THEN AimResult(la, 0)
    ELSE AimReturn(
           AimTraverse(w,
               [la EXCEPT
                  !.shootthing = t1,
                  !.shootz = w.mobj[t1].z + SHR(w.mobj[t1].height, 1) + 8 * FRACUNIT,
                  !.topslope = ((ORIGINALHEIGHT \div 2) * FRACUNIT)
                                  \div (ORIGINALWIDTH \div 2),
                  !.bottomslope = TruncDiv(-(ORIGINALHEIGHT \div 2) * FRACUNIT,
                                           ORIGINALWIDTH \div 2),
                  !.attackrange = distance,
                  !.linetarget = NULL,
                  !.aim_flags_mask = mask,
                  !.trace = <<>>],
               AttackOrder(w, w.mobj[t1], dir, distance), 1))


\* the world and the statics a shot leaves
Shot(w, la) == [w |-> w, la |-> la]

Logged(la, e) == [la EXCEPT !.shot = Append(@, e)]

\* P_ShootSpecialLine(shootthing, li)
ShootSpecial(la, l) ==
    IF lines[l].special # 0 THEN Logged(la, [kind |-> "special", d |-> l]) ELSE la

\* PTR_ShootTraverse(in), a line: the shot stays within the opening (every
\* two-sided line of the corridor has a back sector)
ShootContinues(la, sec, li, o, dist) ==
    /\ \/ sec[li.frontsector].floorheight = sec[li.backsector].floorheight
       \/ FixedDiv(o.openbottom - la.shootz, dist) <= la.aimslope
    /\ \/ sec[li.frontsector].ceilingheight = sec[li.backsector].ceilingheight
       \/ FixedDiv(o.opentop - la.shootz, dist) >= la.aimslope

ShootPasses(w, la, li, frac) ==
    /\ "ML_TWOSIDED" \in li.flags
    /\ li.backsector # NULL
    /\ ShootContinues(la, w.sectors, li, P_LineOpening(w.sectors, li),
                      FixedMul(la.attackrange, frac))

\* position a bit closer; clip shots on floor and ceiling; spawn bullet
\* puffs (the corridor has no sky)
ShootPuff(la, l, z) == Logged(la, [kind |-> "puff", d |-> l, z |-> z])

ShootClip(la, l, sector, z, distz) ==
    IF z > sector.ceilingheight /\ distz # 0
    THEN ShootPuff(la, l, sector.ceilingheight)
    ELSE IF z < sector.floorheight /\ distz # 0
    THEN (IF sector.terraintype # "SOLID" THEN la
          ELSE ShootPuff(la, l, sector.floorheight))
    ELSE ShootPuff([la EXCEPT !.hitwall = TRUE], l, z)

ShootSide(w, la, l, li, side, distz) ==
    IF side = 1 /\ li.backsector = NULL THEN ShootPuff(la, l, la.shootz + distz)
    ELSE ShootClip(la, l,
                   w.sectors[IF side = 0 THEN li.frontsector ELSE li.backsector],
                   la.shootz + distz, distz)

ShootWall(w, la, l, frac) ==
    ShootSide(w, la, l, lines[l],
              P_PointOnLineSide(w.mobj[la.shootthing].x, w.mobj[la.shootthing].y,
                                lines[l]),
              FixedMul(la.aimslope, FixedMul(la.attackrange, frac)))

ShootLine(w, la, l, frac) ==
    IF ShootPasses(w, la, lines[l], frac) THEN Ret(Shot(w, la), TRUE)
    ELSE Ret(Shot(w, ShootWall(w, la, l,
                               frac - FixedDiv(4 * FRACUNIT, la.attackrange))),
             FALSE)

\* PTR_ShootTraverse(in), a thing: hit thing
ShootDamage(w, la, th) ==
    IF la.la_damage # 0
    THEN P_DamageMobj(w, th, la.shootthing, la.shootthing, la.la_damage)
    ELSE w

\* the hit thing damaged and the shot going on
ShootHit_Through(w, la, th) ==
    Ret(Shot(ShootDamage(w, la, th), Logged(la, [kind |-> "thing", d |-> th])),
        TRUE)

ShootHit(w, la, th) ==
    Ret(Shot(ShootDamage(w, la, th), Logged(la, [kind |-> "thing", d |-> th])),
        FALSE)

ShootThing(w, la, th, m, dist) ==
    IF th = la.shootthing THEN Ret(Shot(w, la), TRUE)
    ELSE IF "MF_SHOOTABLE" \notin m.flags THEN Ret(Shot(w, la), TRUE)
    ELSE IF FixedDiv(m.z + m.height - la.shootz, dist) < la.aimslope
    THEN Ret(Shot(w, la), TRUE)
    ELSE IF FixedDiv(m.z - la.shootz, dist) > la.aimslope
    THEN Ret(Shot(w, la), TRUE)
    ELSE ShootHit(w, la, th)

PTR_ShootTraverse(w, la, in) ==
    IF in.isaline THEN ShootLine(w, ShootSpecial(la, in.d), in.d, in.frac)
    ELSE ShootThing(w, la, in.d, w.mobj[in.d], FixedMul(la.attackrange, in.frac))

\* P_TraverseIntercepts(PTR_ShootTraverse, FRACUNIT) over the ordered
\* intercepts q
RECURSIVE ShootTraverse(_, _, _)
ShootTraverseNext(r, q, i) ==
    IF r.ok THEN ShootTraverse(r.w, q, i + 1) ELSE r.w

ShootTraverse(s, q, i) ==
    IF i > Len(q) THEN s
    ELSE IF q[i].frac > FRACUNIT THEN s
    ELSE ShootTraverseNext(PTR_ShootTraverse(s.w, s.la, q[i]), q, i)

FOOTCLIPSIZE == 10 * FRACUNIT

\* P_LineAttack(t1, angle, distance, slope, damage)
P_LineAttack(w, la, t1, dir, distance, slope, damage) ==
    ShootTraverse(
        Shot(w, [la EXCEPT
                   !.shootthing = t1,
                   !.la_damage = damage,
                   !.shootz = w.mobj[t1].z + SHR(w.mobj[t1].height, 1)
                                + 8 * FRACUNIT
                                - (IF "MF2_FEETARECLIPPED" \in w.mobj[t1].flags2
                                   THEN FOOTCLIPSIZE ELSE 0),
                   !.attackrange = distance,
                   !.aimslope = slope,
                   !.shot = <<>>]),
        AttackOrder(w, w.mobj[t1], dir, distance), 1)


----------------------------------------------------------------------------
(* SpecAim: a shooter in the corridor aims and fires along it              *)

\* the number of attacks of a behaviour
MaxAttacks == 2

\* the shooter and the others: one thing more than the movers need, so that
\* a target can stand behind another
AimThings == 1 .. NThings + 1

\* where the shooter (the first) and the others stand; a further thing stands
\* at the far end
AimPlacements ==
    {<<U(24), U(64), U(96)>>, <<U(24), U(96), U(64)>>,
     <<U(108), U(64), U(40)>>, <<U(40), U(40), U(96)>>}

AimPlace(pl, t) == IF t <= Len(pl) THEN pl[t] ELSE U(112)

\* the kinds of the shooter and the others
AimKinds ==
    {<<"player", "monster", "monster">>, <<"monster", "monster", "player">>,
     <<"player", "corpse", "monster">>, <<"monster", "corpse", "monster">>}

AimKind(ks, t) == IF t <= Len(ks) THEN ks[t] ELSE "monster"

\* level; a step up into the middle sector; a ledge at the far sector that
\* closes the window; a pit in the middle sector; the middle sector a closed
\* door
AimCorridors ==
    {<<0, 0, U(128)>>, <<MAXSTEP, 0, U(128)>>, <<0, U(72), U(128)>>,
     <<-U(64), 0, U(128)>>, <<0, 0, 0>>}

AimRanges == {U(64), U(112)}
AimMasks == {{}, {"MF_FRIEND"}}
AimDamages == {0, 100}

RECURSIVE AimSpawnAll(_, _, _, _)
AimSpawnAll(w, t, ks, pl) ==
    IF t > NThings + 1 THEN w
    ELSE AimSpawnAll(P_SpawnMobj(w, t, AimKind(ks, t), AimPlace(pl, t)),
                     t + 1, ks, pl)

\* killough: the monsters of the map are friends
AimFriends(w, friend) ==
    [w EXCEPT !.mobj = [t \in AimThings |->
                          IF friend /\ w.mobj[t].type = "MT_POSSESSED"
                                    /\ "MF_SHOOTABLE" \in w.mobj[t].flags
                          THEN [w.mobj[t] EXCEPT !.flags = @ \cup {"MF_FRIEND"}]
                          ELSE w.mobj[t]]]

AimWorld(sec) ==
    [EmptyWorld(sec) EXCEPT !.mobj = [t \in AimThings |-> NoMobj]]

InitAim ==
    /\ \E c \in AimCorridors, ks \in AimKinds, pl \in AimPlacements,
          friend \in BOOLEAN :
          /\ friend => ks[1] = "monster"
          /\ InitWorld(AimFriends(AimSpawnAll(AimWorld(CorridorSectors(c)), 1,
                                              ks, pl),
                                  friend))
    /\ env = EnvRest
    /\ slide = AttackRest
    /\ obs = ObsRest

AimDone(r, t1, dir, distance, mask) ==
    /\ slide' = r.la
    /\ obs' = [op |-> "P_AimLineAttack", n |-> obs.n + 1, t1 |-> t1, dir |-> dir,
               distance |-> distance, mask |-> mask, pre |-> mobj,
               before |-> slide, slope |-> r.slope]

\* P_AimLineAttack(t1, angle, distance, mask)
AimAttack(t1, dir, distance, mask) ==
    /\ obs.n < MaxAttacks
    /\ t1 # NULL => mobj[t1].linked /\ mobj[t1].health > 0
    /\ AimDone(P_AimLineAttack(World, slide, t1, dir, distance, mask),
               t1, dir, distance, mask)
    /\ UNCHANGED <<mobj, sectors, heap, blocklinks, tm, env>>

LineDone(s, t1, dir, distance, slope, damage) ==
    /\ Commit(s.w)
    /\ slide' = s.la
    /\ obs' = [op |-> "P_LineAttack", n |-> obs.n + 1, t1 |-> t1, dir |-> dir,
               distance |-> distance, slope |-> slope, damage |-> damage,
               pre |-> mobj, before |-> slide, dmg |-> s.w.dmg]

\* P_LineAttack(t1, angle, distance, slope, damage), at the slope of the
\* last aim or level
LineAttack(t1, dir, distance, level, damage) ==
    /\ obs.n < MaxAttacks
    /\ mobj[t1].linked /\ mobj[t1].health > 0
    /\ LineDone(P_LineAttack(World, slide, t1, dir, distance,
                             IF level THEN 0 ELSE slide.aimslope, damage),
                t1, dir, distance, IF level THEN 0 ELSE slide.aimslope, damage)
    /\ UNCHANGED <<sectors, env>>

NextAim ==
    \/ \E t1 \in {1, NULL}, dir \in {1, -1}, distance \in AimRanges,
          mask \in AimMasks :
          AimAttack(t1, dir, distance, mask)
    \/ \E dir \in {1, -1}, distance \in AimRanges, level \in BOOLEAN,
          damage \in AimDamages :
          LineAttack(1, dir, distance, level, damage)

SpecAim == InitAim /\ [][NextAim]_vars


----------------------------------------------------------------------------
(* Claims about aiming (SpecAim) *)

Aimed == obs.op = "P_AimLineAttack" /\ obs.t1 # NULL

AimTrace == slide.trace

\* the view angles the window starts from
ViewSlope == (100 * FRACUNIT) \div 160

\* the window is handed from one intercept to the next, from the view angles
WindowHandedOn ==
    \A i \in DOMAIN AimTrace :
        IF i = 1
        THEN AimTrace[i].top0 = ViewSlope /\ AimTrace[i].bottom0 = -ViewSlope
        ELSE /\ AimTrace[i].top0 = AimTrace[i - 1].top
             /\ AimTrace[i].bottom0 = AimTrace[i - 1].bottom

WindowNarrows ==
    \A i \in DOMAIN AimTrace :
        /\ AimTrace[i].top <= AimTrace[i].top0
        /\ AimTrace[i].bottom >= AimTrace[i].bottom0

OneSidedAt(i) ==
    AimTrace[i].in.isaline /\ "ML_TWOSIDED" \notin lines[AimTrace[i].in.d].flags

\* nothing is visited after a stop, and a collapsed window or a one-sided
\* line is a stop
StopsAtOnce ==
    \A i \in DOMAIN AimTrace :
        /\ ~AimTrace[i].ok => i = Len(AimTrace)
        /\ AimTrace[i].top <= AimTrace[i].bottom => ~AimTrace[i].ok
        /\ OneSidedAt(i) => ~AimTrace[i].ok

\* the distance of the shooter to thing u along the trace, as the callback
\* computes it
AimDist(u) ==
    FixedMul(obs.distance,
             FixedDiv(obs.pre[u].x - obs.pre[obs.t1].x,
                      obs.dir * SHR(obs.distance, FRACBITS) * FRACUNIT))

ExtentTop(u) ==
    FixedDiv(obs.pre[u].z + obs.pre[u].height - slide.shootz, AimDist(u))

ExtentBottom(u) == FixedDiv(obs.pre[u].z - slide.shootz, AimDist(u))

\* the middle of the part of u's extent that lies in the window
ClippedMiddle(u) ==
    TruncDiv(MIN(ExtentTop(u), slide.topslope)
               + MAX(ExtentBottom(u), slide.bottomslope), 2)

TargetAimed ==
    slide.linetarget # NULL =>
        /\ slide.linetarget \in AimThings \ {obs.t1}
        /\ "MF_SHOOTABLE" \in obs.pre[slide.linetarget].flags
        /\ obs.slope = ClippedMiddle(slide.linetarget)
        /\ slide.bottomslope <= obs.slope
        /\ obs.slope <= slide.topslope

NoTargetAimed == slide.linetarget = NULL => obs.slope = 0

\* C26: during one P_AimLineAttack traversal the top slope never increases
\* and the bottom slope never decreases, the cast stops as soon as the top
\* slope is no higher than the bottom slope or a one-sided line is crossed,
\* the slope returned for a selected target is the middle of its extent
\* clipped to the window and so lies in the window, and with no target the
\* result is 0 and the line target is empty
C26_AimWindow ==
    Aimed => /\ WindowHandedOn
             /\ WindowNarrows
             /\ StopsAtOnce
             /\ TargetAimed
             /\ NoTargetAimed

\* an aim across a line that narrowed the window, at a target whose extent
\* the window clipped
C26_Witness ==
    /\ Aimed
    /\ slide.linetarget # NULL
    /\ \E i \in DOMAIN AimTrace : AimTrace[i].bottom > AimTrace[i].bottom0
    /\ ExtentTop(slide.linetarget) > slide.topslope
    /\ obs.slope # 0

\* the window collapsed at a line and the cast ended there without a target
C26_Collapsed ==
    /\ Aimed
    /\ slide.linetarget = NULL
    /\ slide.topslope <= slide.bottomslope
    /\ obs.slope = 0

\* the cast ended at a one-sided line, past a thing it did not select
C26_WallEnded ==
    /\ Aimed
    /\ slide.linetarget = NULL
    /\ Len(AimTrace) > 2
    /\ OneSidedAt(Len(AimTrace))

\* a friend was passed over and the thing behind it selected
C26_FriendPassed ==
    /\ Aimed
    /\ slide.linetarget # NULL
    /\ \E i \in DOMAIN AimTrace :
          /\ ~AimTrace[i].in.isaline
          /\ AimTrace[i].in.d # obs.t1
          /\ "MF_FRIEND" \in obs.pre[AimTrace[i].in.d].flags
          /\ AimTrace[i].ok


----------------------------------------------------------------------------
(* Claims about the hitscan (SpecAim) *)

Fired == obs.op = "P_LineAttack"

\* the end of the trace and the fraction of it at which thing u and line l
\* are met
FiredEnd == obs.pre[obs.t1].x + obs.dir * SHR(obs.distance, FRACBITS) * FRACUNIT

FiredFrac(u) == FixedDiv(obs.pre[u].x - obs.pre[obs.t1].x,
                         FiredEnd - obs.pre[obs.t1].x)

FiredLineFrac(l) == FixedDiv(lines[l].v1x - obs.pre[obs.t1].x,
                             FiredEnd - obs.pre[obs.t1].x)

InRange(frac) == frac >= 0 /\ frac <= FRACUNIT

\* the shot slope lies within the vertical extent of thing u
ExtentHasSlope(u) ==
    /\ FixedDiv(obs.pre[u].z + obs.pre[u].height - slide.shootz,
                FixedMul(obs.distance, FiredFrac(u))) >= obs.slope
    /\ FixedDiv(obs.pre[u].z - slide.shootz,
                FixedMul(obs.distance, FiredFrac(u))) <= obs.slope

\* the lines the trace crosses in range that end the cast: one-sided, or
\* two-sided with the shot outside the opening
Terminators ==
    {l \in Lines :
       /\ P_PointOnLineSide(obs.pre[obs.t1].x, 0, lines[l])
            # P_PointOnLineSide(FiredEnd, 0, lines[l])
       /\ InRange(FiredLineFrac(l))
       /\ \/ lines[l].backsector = NULL
          \/ /\ sectors[lines[l].frontsector].floorheight
                  # sectors[lines[l].backsector].floorheight
             /\ FixedDiv(P_LineOpening(sectors, lines[l]).openbottom - slide.shootz,
                         FixedMul(obs.distance, FiredLineFrac(l))) > obs.slope
          \/ /\ sectors[lines[l].frontsector].ceilingheight
                  # sectors[lines[l].backsector].ceilingheight
             /\ FixedDiv(P_LineOpening(sectors, lines[l]).opentop - slide.shootz,
                         FixedMul(obs.distance, FiredLineFrac(l))) < obs.slope}

BehindTerminator(u) == \E l \in Terminators : FiredLineFrac(l) <= FiredFrac(u)

\* the shootable things other than the shooter that the shot could hit
Hittable ==
    {u \in AimThings \ {obs.t1} :
       /\ obs.pre[u].linked
       /\ "MF_NOBLOCKMAP" \notin obs.pre[u].flags
       /\ "MF_SHOOTABLE" \in obs.pre[u].flags
       /\ InRange(FiredFrac(u))
       /\ ExtentHasSlope(u)}

\* the nearest of them that no terminating line screens
FirstHit(u) ==
    /\ u \in Hittable
    /\ ~BehindTerminator(u)
    /\ \A v \in Hittable \ {u} : FiredFrac(u) < FiredFrac(v)

\* C27: one P_LineAttack call damages at most one entity, the first
\* shootable entity other than the shooter along the ray whose vertical
\* extent contains the shot slope and that is met before any line that ends
\* the cast; entities behind such a line or behind the hit entity are not
\* damaged, and with damage 0 nothing is damaged
C27_OneDamaged ==
    Fired =>
        /\ Len(obs.dmg) <= 1
        /\ obs.damage = 0 => obs.dmg = <<>>
        /\ \A i \in DOMAIN obs.dmg :
              /\ FirstHit(obs.dmg[i].target)
              /\ obs.dmg[i].damage = obs.damage
              /\ obs.dmg[i].source = obs.t1
        /\ \A u \in AimThings :
              (\A i \in DOMAIN obs.dmg : obs.dmg[i].target # u)
                 => mobj[u].health = obs.pre[u].health
        /\ (obs.damage # 0 /\ \E u \in AimThings : FirstHit(u)) => obs.dmg # <<>>

\* a shot hit the nearer of two things in its path and spared the other
C27_Witness ==
    /\ Fired
    /\ Len(obs.dmg) = 1
    /\ \E v \in Hittable : /\ FiredFrac(v) > FiredFrac(obs.dmg[1].target)
                           /\ ~BehindTerminator(v)
                           /\ mobj[v].health = obs.pre[v].health

\* a thing in the path of the shot stood behind the line that ended the cast
C27_Screened ==
    /\ Fired
    /\ obs.damage # 0
    /\ obs.dmg = <<>>
    /\ \E u \in Hittable : BehindTerminator(u)
    /\ \E l \in Terminators : lines[l].backsector # NULL

\* a test trace: a thing was hit and nothing damaged
C27_TestTrace ==
    /\ Fired
    /\ obs.damage = 0
    /\ \E u \in AimThings : FirstHit(u)
    /\ \A u \in AimThings : mobj[u] = obs.pre[u]

\* the shot passed a corpse and hit the thing behind it
C27_PastCorpse ==
    /\ Fired
    /\ Len(obs.dmg) = 1
    /\ \E v \in AimThings \ {obs.t1} :
          /\ "MF_SHOOTABLE" \notin obs.pre[v].flags
          /\ InRange(FiredFrac(v))
          /\ FiredFrac(v) < FiredFrac(obs.dmg[1].target)


----------------------------------------------------------------------------
(* Claims about whom a radius attack may damage (SpecBlast) *)

Exploded == obs.op = "P_RadiusAttack"

Exempt(u) == obs.pre[u].type \in {"MT_CYBORG", "MT_SPIDER"}

Reactive(u) == obs.pre[u].flags \cap {"MF_SHOOTABLE", "MF_CORPSE"} # {}

\* C28: a radius attack with damage D never damages an entity out of sight
\* of the blast, a cyberdemon or spider mastermind, or an entity that is
\* neither shootable nor a corpse, and every amount it applies is in 1..D
C28_BlastSafe ==
    Exploded =>
        /\ \A i \in DOMAIN obs.dmg :
              /\ obs.dmg[i].target \in obs.sight
              /\ ~Exempt(obs.dmg[i].target)
              /\ Reactive(obs.dmg[i].target)
              /\ obs.dmg[i].damage >= 1
              /\ obs.dmg[i].damage <= obs.damage
        /\ \A u \in Things :
              Unblasted(u) => mobj[u].health = obs.pre[u].health

\* a thing in sight was damaged by less than the full amount
C28_Witness ==
    /\ Exploded
    /\ \E i \in DOMAIN obs.dmg :
          /\ obs.dmg[i].target \in obs.sight
          /\ obs.dmg[i].damage < obs.damage
          /\ mobj[obs.dmg[i].target].health < obs.pre[obs.dmg[i].target].health

\* a shootable thing next to the blast but out of its sight was spared
C28_Unsighted ==
    /\ Exploded
    /\ obs.dmg = <<>>
    /\ \E u \in BlastTargets \ obs.sight :
          /\ "MF_SHOOTABLE" \in obs.pre[u].flags
          /\ ~Exempt(u)
          /\ BombDist(obs.pre[u], Spot) < 0

\* a cyberdemon in sight next to the blast was spared
C28_BossSpared ==
    /\ Exploded
    /\ obs.dmg = <<>>
    /\ \E u \in BlastTargets \cap obs.sight :
          Exempt(u) /\ BombDist(obs.pre[u], Spot) < 0

\* a pickup in sight next to the blast was spared, a corpse was not
C28_PickupSpared ==
    /\ Exploded
    /\ obs.dmg = <<>>
    /\ \E u \in BlastTargets \cap obs.sight :
          ~Reactive(u) /\ BombDist(obs.pre[u], Spot) < 0

C28_CorpseBlasted ==
    /\ Exploded
    /\ \E i \in DOMAIN obs.dmg : "MF_CORPSE" \in obs.pre[obs.dmg[i].target].flags


----------------------------------------------------------------------------
(* Torque: PIT_ApplyTorque and P_ApplyTorque *)

OVERDRIVE == 6

\* the lever arm: the cross product of the line with the thing's offset from
\* its first vertex, in whole map units
TorqueLever(m, ld) ==
    SHR(ld.dx, FRACBITS) * SHR(m.y, FRACBITS)
        - SHR(ld.dy, FRACBITS) * SHR(m.x, FRACBITS)
        - SHR(ld.dx, FRACBITS) * SHR(ld.v1y, FRACBITS)
        + SHR(ld.dy, FRACBITS) * SHR(ld.v1x, FRACBITS)

\* dropoff direction
TorqueDropoff(sec, m, ld, dist) ==
    IF dist < 0
    THEN /\ sec[ld.frontsector].floorheight < m.z
         /\ sec[ld.backsector].floorheight >= m.z
    ELSE /\ sec[ld.backsector].floorheight < m.z
         /\ sec[ld.frontsector].floorheight >= m.z

\* finesine[(tantoangle[FixedDiv(y, x) >> DBITS] + ANG90) >> ANGLETOFINESHIFT]
\* for the shorter extent y and the longer extent x of the line: the lines of
\* the corridor run along an axis, y = 0, and the entry is the table's last
TorqueSine(y, x) == FRACUNIT - 1

\* scaled by 2 ^ (OVERDRIVE - gear)
TorqueScale(gear, y) ==
    IF gear < OVERDRIVE THEN y * 2 ^ (OVERDRIVE - gear)
    ELSE SHR(y, gear - OVERDRIVE)

TorqueArm(m, ld, dist) ==
    FixedDiv(FixedMul(dist, TorqueScale(m.gear,
                                        TorqueSine(MIN(ABS(ld.dx), ABS(ld.dy)),
                                                   MAX(ABS(ld.dx), ABS(ld.dy))))),
             MAX(ABS(ld.dx), ABS(ld.dy)))

\* avoid moving too fast all of a sudden (step into "overdrive")
Gears(gear, x, y, dist, steps) ==
    [gear |-> gear, x |-> x, y |-> y, dist |-> dist, steps |-> steps]

RECURSIVE Overdrive(_)
Overdrive(g) ==
    IF g.dist > FRACUNIT * 4 /\ g.gear < MAXGEAR
    THEN Overdrive(Gears(g.gear + 1, SHR(g.x, 1), SHR(g.y, 1), SHR(g.dist, 1),
                         g.steps + 1))
    ELSE g

TorqueGears(gear, x, y) ==
    Overdrive(Gears(gear, x, y, FixedMul(x, x) + FixedMul(y, y), 0))

\* apply momentum away from the pivot linedef; the steps into overdrive are
\* logged
TorquePushed(w, thing, g) ==
    [w EXCEPT !.mobj[thing].gear = g.gear,
              !.mobj[thing].momx = @ - g.x,
              !.mobj[thing].momy = @ + g.y,
              !.scanned = Append(@, g.steps)]

TorquePush(w, thing, m, ld, dist) ==
    TorquePushed(w, thing,
                 TorqueGears(m.gear, FixedMul(ld.dy, dist), FixedMul(ld.dx, dist)))

TorquePivot(w, thing, m, ld, dist) ==
    IF TorqueDropoff(w.sectors, m, ld, dist)
    THEN TorquePush(w, thing, m, ld, TorqueArm(m, ld, dist))
    ELSE w

\* PIT_ApplyTorque(ld)
PIT_ApplyTorque(w, ld) ==
    IF ld.backsector # NULL /\ BoxHitsLine(w.tm, ld)
    THEN TorquePivot(w, w.tm.tmthing, w.mobj[w.tm.tmthing], ld,
                     TorqueLever(w.mobj[w.tm.tmthing], ld))
    ELSE w

\* P_BlockLinesIterator(bx, by, PIT_ApplyTorque) over the lines of the cell
RECURSIVE TorqueLines(_, _)
TorqueLines(w, l) ==
    IF l > Len(lines) THEN w
    ELSE TorqueLines(PIT_ApplyTorque(w, lines[l]), l + 1)

\* if any momentum, mark object as 'falling' using engine-internal flags
TorqueFalling(m) ==
    IF m.momx # 0 \/ m.momy # 0
    THEN [m EXCEPT !.flags2 = @ \cup {"MF2_FALLING"}]
    ELSE [m EXCEPT !.flags2 = @ \ {"MF2_FALLING"}]

\* the gear stepped on what the thing is now alone
TorqueShift_Now(m, flags2) ==
    IF "MF2_FALLING" \notin m.flags2 THEN [m EXCEPT !.gear = 0]
    ELSE IF m.gear < MAXGEAR THEN [m EXCEPT !.gear = @ + 1]
    ELSE m

\* if the object has been moving, step up the gear
TorqueShift(m, flags2) ==
    IF "MF2_FALLING" \notin (m.flags2 \cup flags2) THEN [m EXCEPT !.gear = 0]
    ELSE IF m.gear < MAXGEAR THEN [m EXCEPT !.gear = @ + 1]
    ELSE m

TorqueEnd(w, mo, flags2) ==
    [w EXCEPT !.mobj[mo] = TorqueShift(TorqueFalling(@), flags2)]

TorqueBox(m) ==
    Box(m.y + m.radius, m.y - m.radius, m.x - m.radius, m.x + m.radius)

\* P_ApplyTorque(mo)
P_ApplyTorque(w, mo) ==
    TorqueEnd(TorqueLines([w EXCEPT !.tm.tmbbox = TorqueBox(w.mobj[mo]),
                                    !.tm.tmthing = mo],
                          1),
              mo, w.mobj[mo].flags2)

----------------------------------------------------------------------------
(* SpecTorque: a thing on the ledge of a pit, tic after tic                *)

\* the number of calls of a behaviour: enough to run through the gears
MaxTorques == 24

TorqueKinds == {"monster", "corpse"}

\* over the pit next to its edge, further out, and level with both edges
TorqueXs == {U(56), U(66), U(64)}

\* a pit in the middle sector, or a pit from the near sector on
TorqueCorridors == {<<-U(40), 0, U(128)>>, <<-U(40), -U(40), U(128)>>}

InitTorque ==
    /\ \E c \in TorqueCorridors, k1 \in TorqueKinds, x1 \in TorqueXs :
          InitWorld(P_SpawnMobj(EmptyWorld(CorridorSectors(c)), 1, k1, x1))
    /\ env = EnvRest
    /\ slide = SlideRest
    /\ obs = ObsRest

TorqueDone(w, op, t) ==
    /\ Commit(w)
    /\ obs' = [op |-> op, n |-> obs.n + 1, thing |-> t, pre |-> mobj,
               steps |-> w.scanned]

\* P_MobjThinker: P_ApplyTorque(mo)
TorqueApply(t) ==
    /\ obs.n < MaxTorques
    /\ mobj[t].linked
    /\ TorqueDone(P_ApplyTorque(World, t), "P_ApplyTorque", t)
    /\ UNCHANGED <<sectors, env, slide>>

\* P_ChangeSector: P_ThingHeightClip(thing)
TorqueClip(t, rnd) ==
    /\ obs.n < MaxTorques
    /\ mobj[t].linked
    /\ TorqueDone(P_ThingHeightClip(World, t, rnd).w, "P_ThingHeightClip", t)
    /\ UNCHANGED <<sectors, env, slide>>

\* P_XYMovement: the thing has come to rest
TorqueStop(t) ==
    /\ obs.n < MaxTorques
    /\ mobj[t].linked
    /\ mobj[t].momx # 0
    /\ mobj' = [mobj EXCEPT ![t].momx = 0, ![t].momy = 0]
    /\ obs' = [op |-> "P_XYMovement", n |-> obs.n + 1, thing |-> t, pre |-> mobj,
               steps |-> <<>>]
    /\ UNCHANGED <<sectors, heap, blocklinks, tm, env, slide>>

NextTorque ==
    \/ \E t \in Things : TorqueApply(t)
    \/ \E t \in Things, rnd \in CrushDraws : TorqueClip(t, rnd)
    \/ \E t \in Things : TorqueStop(t)

SpecTorque == InitTorque /\ [][NextTorque]_vars


----------------------------------------------------------------------------
(* Claims about the gear (SpecTorque) *)

Torqued == obs.op = "P_ApplyTorque"

GearBefore == obs.pre[obs.thing].gear
GearAfter == mobj[obs.thing].gear

WasFalling == "MF2_FALLING" \in obs.pre[obs.thing].flags2
IsFalling == "MF2_FALLING" \in mobj[obs.thing].flags2

GearInRange == \A t \in Things : mobj[t].gear >= 0 /\ mobj[t].gear <= MAXGEAR

FallingIffMoving ==
    IsFalling <=> (mobj[obs.thing].momx # 0 \/ mobj[obs.thing].momy # 0)

\* the steps into overdrive the contacted lines took in the call
RECURSIVE StepsFrom(_, _)
StepsFrom(q, i) == IF i > Len(q) THEN 0 ELSE q[i] + StepsFrom(q, i + 1)

OverdriveSteps == StepsFrom(obs.steps, 1)

\* C29 as stated: the gear stays within 0..MAXGEAR; P_ApplyTorque sets the
\* falling flag exactly when the thing has horizontal momentum after the
\* call, resets the gear when the thing was not falling before and is not
\* falling after, and otherwise raises the gear by one step unless it is
\* already MAXGEAR
C29_AsStated ==
    /\ GearInRange
    /\ Torqued =>
          /\ FallingIffMoving
          /\ (~WasFalling /\ ~IsFalling) => GearAfter = 0
          /\ (WasFalling \/ IsFalling) =>
                GearAfter = IF GearBefore = MAXGEAR THEN MAXGEAR ELSE GearBefore + 1

\* C29, amended: as stated, but the step is taken from the gear the contacted
\* lines left, which is the gear before the call raised by their steps into
\* overdrive
C29_GearSteps ==
    /\ GearInRange
    /\ Torqued =>
          /\ FallingIffMoving
          /\ (~WasFalling /\ ~IsFalling) => GearAfter = 0
          /\ (WasFalling \/ IsFalling) =>
                GearAfter = MIN(MAXGEAR, GearBefore + OverdriveSteps + 1)
          /\ GearBefore + OverdriveSteps <= MAXGEAR

\* a call in which a line stepped into overdrive and the gear rose by more
\* than one
C29_Witness ==
    /\ Torqued
    /\ OverdriveSteps > 0
    /\ IsFalling
    /\ GearAfter > GearBefore + 1

\* the gear is at its maximum and stays there
C29_TopGear ==
    /\ Torqued
    /\ GearBefore = MAXGEAR
    /\ GearAfter = MAXGEAR
    /\ IsFalling

\* a thing at rest before and after the call: the gear is reset
C29_GearReset ==
    /\ Torqued
    /\ GearBefore > 0
    /\ ~WasFalling /\ ~IsFalling
    /\ GearAfter = 0

\* a thing that has just come to rest: the gear still rises
C29_StillRising ==
    /\ Torqued
    /\ WasFalling /\ ~IsFalling
    /\ GearAfter = GearBefore + 1

\* P_ThingHeightClip upset the balance of a thing in top gear
C29_ClipReset ==
    /\ obs.op = "P_ThingHeightClip"
    /\ GearBefore = MAXGEAR
    /\ GearAfter = 0


----------------------------------------------------------------------------
(* SpecNode: the membership nodes one acquisition and one deletion at a    *)
(* time.  A thing's thread is parked in sector_list, sectors are added to  *)
(* it and unconfirmed nodes deleted from it in any order, and it is        *)
(* attached again; things are removed; the level is set up anew.           *)

\* the number of steps of a behaviour
MaxNodeOps == 10

NodeRest == [pc |-> "idle", thing |-> NULL]

InitNode ==
    /\ mobj = [t \in Things |->
                 [NoMobj EXCEPT !.flags = {"MF_SOLID", "MF_SHOOTABLE"},
                                !.health = 100]]
    /\ sectors = [s \in Sectors |-> SectorRest]
    /\ heap = EmptyHeap
    /\ blocklinks = <<>>
    /\ tm = TmRest
    /\ env = EnvRest
    /\ slide = NodeRest
    /\ obs = ObsRest

\* the thread under sector_list
ParkedThread == TThread(heap.node, heap.sector_list, MaxNodes + 1)

NodeLogged(op, node) ==
    obs' = [op |-> op, n |-> obs.n + 1, node |-> node, free0 |-> FreeList,
            nalloc0 |-> heap.nalloc, parked0 |-> ParkedThread]

\* P_UnsetThingPosition and the first loop of P_CreateSecNodeList: the
\* thread is parked and every node of it unconfirmed
NodeParked(w) ==
    Commit([w EXCEPT !.heap.node = ClearThingMarks(@, w.heap.sector_list)])

NodeBegin(t) ==
    /\ obs.n < MaxNodeOps
    /\ slide.pc = "idle"
    /\ NodeParked(IF mobj[t].linked THEN P_UnsetThingPosition(World, t) ELSE World)
    /\ slide' = [pc |-> "rebuild", thing |-> t]
    /\ NodeLogged("P_UnsetThingPosition", NULL)
    /\ UNCHANGED <<sectors, env>>

\* sector_list = P_AddSecnode(s, thing, sector_list)
NodeAdd(s) ==
    /\ obs.n < MaxNodeOps
    /\ slide.pc = "rebuild"
    /\ heap' = AddToSectorList(heap, s, slide.thing)
    /\ NodeLogged("P_AddSecnode", NULL)
    /\ UNCHANGED <<mobj, sectors, blocklinks, tm, env, slide>>

\* the last loop of P_CreateSecNodeList at an unconfirmed node:
\* node = P_DelSecnode(node)
NodeDel(node) ==
    /\ obs.n < MaxNodeOps
    /\ slide.pc = "rebuild"
    /\ node \in Range(ParkedThread)
    /\ heap.node[node].m_thing = NULL
    /\ heap' = P_DelSecnode(IF node = heap.sector_list
                            THEN [heap EXCEPT !.sector_list = heap.node[node].m_tnext]
                            ELSE heap,
                            node).h
    /\ NodeLogged("P_DelSecnode", node)
    /\ UNCHANGED <<mobj, sectors, blocklinks, tm, env, slide>>

\* the end of P_SetThingPosition: the thread is attached to the thing
NodeAttached(w, t) ==
    Commit(SetThingBlock([w EXCEPT !.mobj[t].touching_sectorlist = heap.sector_list,
                                   !.mobj[t].linked = TRUE,
                                   !.heap.sector_list = NULL],
                         t))

NodeEnd ==
    /\ obs.n < MaxNodeOps
    /\ slide.pc = "rebuild"
    /\ heap.sector_list # NULL
    /\ \A n \in Range(ParkedThread) : heap.node[n].m_thing # NULL
    /\ NodeAttached(World, slide.thing)
    /\ slide' = NodeRest
    /\ NodeLogged("P_SetThingPosition", NULL)
    /\ UNCHANGED <<sectors, env>>

\* P_RemoveMobj: P_DelSeclist of the whole thread
NodeRemove(t) ==
    /\ obs.n < MaxNodeOps
    /\ slide.pc = "idle"
    /\ mobj[t].linked
    /\ Commit(P_RemoveMobj(World, t))
    /\ obs' = [op |-> "P_DelSeclist", n |-> obs.n + 1, node |-> NULL,
               free0 |-> FreeList, nalloc0 |-> heap.nalloc,
               parked0 |-> ThingThread(t)]
    /\ UNCHANGED <<sectors, env, slide>>

\* a new level: the zone of the old one is freed, nodes and threads with it,
\* and P_FreeSecNodeList forgets the free list
NodeLevel ==
    /\ obs.n < MaxNodeOps
    /\ slide.pc = "idle"
    /\ heap.nalloc > 0
    /\ heap' = P_FreeSecNodeList([EmptyHeap EXCEPT !.headsecnode = heap.headsecnode])
    /\ mobj' = [t \in Things |-> [mobj[t] EXCEPT !.linked = FALSE,
                                                 !.touching_sectorlist = NULL,
                                                 !.subsector = NULL]]
    /\ blocklinks' = <<>>
    /\ NodeLogged("P_FreeSecNodeList", NULL)
    /\ UNCHANGED <<sectors, tm, env, slide>>

NextNode ==
    \/ \E t \in Things : NodeBegin(t)
    \/ \E s \in Sectors : NodeAdd(s)
    \/ \E node \in Nodes : NodeDel(node)
    \/ NodeEnd
    \/ \E t \in Things : NodeRemove(t)
    \/ NodeLevel

SpecNode == InitNode /\ [][NextNode]_vars

----------------------------------------------------------------------------
(* Claims about the free list (SpecNode) *)

FreeNodes == Range(FreeList)

\* the nodes reachable from a sector's thread, a thing's thread or the
\* parked thread
ThreadNodes ==
    UNION {Range(SectorThread(s)) : s \in Sectors}
        \cup UNION {Range(ThingThread(t)) : t \in Things}
        \cup Range(ParkedThread)

\* the call obtained a node: the parked thread has a new head
Acquired ==
    /\ obs.op = "P_AddSecnode"
    /\ Len(ParkedThread) = Len(obs.parked0) + 1

RECURSIVE Reversed(_)
Reversed(q) == IF q = <<>> THEN <<>> ELSE Reversed(Tail(q)) \o <<Head(q)>>

\* C30: after any sequence of node acquisitions and deletions no node of the
\* free list is reachable from a sector's or a thing's thread, no node is on
\* the free list twice, a deleted node is pushed on the free list and not
\* released, and a node comes from the allocator only when the free list is
\* empty: otherwise the most recently freed node is reused
C30_FreeList ==
    /\ FreeNodes \cap ThreadNodes = {}
    /\ Len(FreeList) = Cardinality(FreeNodes)
    /\ obs.op = "P_DelSecnode" =>
          /\ FreeList = <<obs.node>> \o obs.free0
          /\ heap.nalloc = obs.nalloc0
    /\ obs.op = "P_DelSeclist" =>
          /\ FreeList = Reversed(obs.parked0) \o obs.free0
          /\ heap.nalloc = obs.nalloc0
    /\ obs.op = "P_AddSecnode" =>
          /\ heap.nalloc > obs.nalloc0 => obs.free0 = <<>> /\ Acquired
          /\ (Acquired /\ obs.free0 # <<>>) =>
                /\ Head(ParkedThread) = Head(obs.free0)
                /\ FreeList = Tail(obs.free0)
                /\ heap.nalloc = obs.nalloc0
          /\ ~Acquired => FreeList = obs.free0 /\ heap.nalloc = obs.nalloc0

\* with two nodes on the free list the later freed was reused
C30_Witness ==
    /\ Acquired
    /\ Len(obs.free0) = 2
    /\ Head(ParkedThread) = Head(obs.free0)
    /\ FreeList = Tail(obs.free0)
    /\ ThreadNodes # {}

\* with the free list empty a further node came from the allocator
C30_Allocated ==
    /\ Acquired
    /\ obs.free0 = <<>>
    /\ obs.nalloc0 >= 2
    /\ heap.nalloc = obs.nalloc0 + 1
    /\ Head(ParkedThread) = heap.nalloc

\* a deleted node went on top of a free list that was not empty
C30_Pushed ==
    /\ obs.op = "P_DelSecnode"
    /\ obs.free0 # <<>>
    /\ FreeList = <<obs.node>> \o obs.free0

\* a new level began with nodes on the free list
C30_Forgotten ==
    /\ obs.op = "P_FreeSecNodeList"
    /\ obs.free0 # <<>>
    /\ FreeList = <<>>

============================================================================
